---- MODULE Spec2Model ----
(***************************************************************************)
(* GDALRasterBand::IRasterIO (gcore/rasterio.cpp as shipped in the ATAK    *)
(* tree): the block-aligned windowed read/write of one band.               *)
(*                                                                         *)
(* Pixel values are symbolic tokens <<kind, a, b>> that name where a value *)
(* came from.  IRasterIO never branches on a pixel value, so at the start  *)
(* of every request the cells of the band are named by their own position *)
(* (<<"src", x, y>>), the caller's buffer holds <<"usr", i, j>> for a      *)
(* write and <<"unset", 0, 0>> for a read.  A block is stored as           *)
(* nBlockXSize * nBlockYSize words; the cells of an edge block that lie    *)
(* outside the raster are part of the state.                               *)
(*                                                                         *)
(* The double arithmetic of the resampled paths is modelled by exact       *)
(* rational arithmetic on integers: for the sizes explored every quotient  *)
(* is either an integer or at least 1/(2*nBufXSize) away from one, so the  *)
(* 1e-10 bias (EPS) and the rounding of dfSrcXInc do not change a result.  *)
(***************************************************************************)
EXTENDS Integers, Sequences, FiniteSets, TLC

\* ------------------------------------------------------------------ bounds
MaxRasterXSize == 3
MaxRasterYSize == 3
MaxBlockXSize == 2
MaxBlockYSize == 2
MaxBufXSize == 3
MaxBufYSize == 3
MaxFaults == 1
\* The raster and the block of the scenarios: a 4x4 raster in 2x2 blocks.
ScenarioRasterSize == 4
ScenarioBlockSize == 2
\* Overview selection: the band is at most MaxOvrRasterSize pixels wide and high
\* and has at most MaxOverviews overviews.
MaxOvrRasterSize == 6
MaxOverviews == 2
\* Whole-raster copy: the datasets are at most MaxCopyXSize x MaxCopyYSize pixels
\* with at most MaxCopyBands bands.
MaxCopyXSize == 2
MaxCopyYSize == 2
MaxCopyBands == 2
\* GDALCopyWords: up to MaxWordCount words, with strides of up to MaxStrideFactor
\* words, in buffers of at most MaxBufferBytes bytes.
MaxWordCount == 17
MaxStrideFactor == 5
MaxBufferBytes == 136
\* GDALCopyBits: up to MaxStepCount words of up to MaxBitCount bits that start up
\* to MaxBitOffset bits into the buffers and lie up to MaxBitGap bits apart.
MaxBitCount == 3
MaxStepCount == 3
MaxBitOffset == 8
MaxBitGap == 2
\* GDALSwapWordsEx: word counts within MaxChunkRest of a multiple of the 2^30
\* words of a chunk, up to MaxChunks such multiples.
MaxChunks == 2
MaxChunkRest == 2
\* The overview branch of IRasterIO: bands of up to MaxRedirectSize pixels a
\* side, and bands of WideRasterSize pixels, of which a buffer of one pixel is
\* less than a hundredth.
MaxRedirectSize == 3
WideRasterSize == 200
\* The chunks of RasterIOResampled: windows of up to MaxChunkWindowSize pixels
\* a side (and of INT_MAX pixels), buffers of up to MaxChunkBufSize.
MaxChunkWindowSize == 40000
MaxChunkBufSize == 64
\* The swath of a whole-raster copy: rasters of one line of MaxSwathXSize
\* pixels per block, and rasters tiled with blocks of up to MaxSwathBlockSize
\* pixels a side.
MaxSwathXSize == 2000000
MaxSwathBlockSize == 2048
\* BlockBasedRasterIO: rasters of up to MaxBlockBasedSize pixels a side.
MaxBlockBasedSize == 4
\* The tiles of a whole-raster copy: rasters of up to MaxTileRasterSize pixels
\* a side.
MaxTileRasterSize == 3
\* The chunks queried by RasterIOResampled: resampling kernels of a radius of
\* up to MaxKernelRadius pixels, and windows MaxEdgeMargin pixels off the
\* edges of the raster.
MaxKernelRadius == 3
MaxEdgeMargin == 5
\* GLLabelManager: up to MaxLabelIds labels added, and calls with the ids 0 ..
\* MaxLabelIds.
MaxLabelIds == 2

\* ------------------------------------------------------------- vocabulary
CE_None == "CE_None"
CE_Failure == "CE_Failure"
CE_Interrupted == "CE_Interrupted"
GF_Read == "GF_Read"
GF_Write == "GF_Write"

NoBlock == <<-1, -1>>
ZeroWord == <<"zero", 0, 0>>
UninitWord == <<"uninit", 0, 0>>
UnsetWord == <<"unset", 0, 0>>
SrcWord(x, y) == <<"src", x, y>>
UsrWord(i, j) == <<"usr", i, j>>

Min(a, b) == IF a < b THEN a ELSE b
Max(a, b) == IF a > b THEN a ELSE b

VARIABLES
    band,      \* nRasterXSize, nRasterYSize, nBlockXSize, nBlockYSize, eFlushBlockErr
    blocks,    \* block cache + storage: cell <<x, y>> of the padded grid -> word
    req,       \* the arguments of the request in progress
    pData,     \* the caller's buffer: <<i, j>> -> word
    pc,        \* which loop of IRasterIO the request is in; "done" once it has
               \* returned, "idle" when the caller has taken the result
    loc,       \* the locals of IRasterIO
    ret,       \* the value returned by the last request
    obs        \* what the collaborators saw during the request

vars == <<band, blocks, req, pData, pc, loc, ret, obs>>

\* ------------------------------------------------------------ band layout
nBlocksPerRow == (band.nRasterXSize + band.nBlockXSize - 1) \div band.nBlockXSize
nBlocksPerColumn == (band.nRasterYSize + band.nBlockYSize - 1) \div band.nBlockYSize
BlockIds == (0 .. nBlocksPerRow - 1) \X (0 .. nBlocksPerColumn - 1)
Cells == (0 .. nBlocksPerRow * band.nBlockXSize - 1) \X
         (0 .. nBlocksPerColumn * band.nBlockYSize - 1)
InRaster(c) == c[1] < band.nRasterXSize /\ c[2] < band.nRasterYSize
CellsOfBlock(b) == {c \in Cells : c[1] \div band.nBlockXSize = b[1]
                                  /\ c[2] \div band.nBlockYSize = b[2]}
BufCells == (0 .. req.nBufXSize - 1) \X (0 .. req.nBufYSize - 1)
InWindow(c) == /\ req.nXOff <= c[1] /\ c[1] < req.nXOff + req.nXSize
               /\ req.nYOff <= c[2] /\ c[2] < req.nYOff + req.nYSize

\* The cell addressed by word offset off of the data of block b (GetDataRef).
BlockCell(b, off) == <<b[1] * band.nBlockXSize + (off % band.nBlockXSize),
                       b[2] * band.nBlockYSize + (off \div band.nBlockXSize)>>

\* ----------------------------------------------------------- collaborators
\* A DropLock that releases nothing.
DropLockNever(locks, b) == locks

\* GDALRasterBlock::DropLock on block b.
DropLock(locks, b) == [locks EXCEPT ![b] = @ - 1]

\* GDALRasterBlock::AddLock through a successful GetLockedBlockRef.
AddLock(locks, b) == [locks EXCEPT ![b] = @ + 1]

\* A fetch that never loads the prior contents of the block.
FetchedBlocksNeverLoaded(b, bJustInitialize) ==
    [c \in Cells |-> IF c \in CellsOfBlock(b) THEN UninitWord ELSE blocks[c]]

\* The data of block b as GetLockedBlockRef hands it out.  With
\* bJustInitialize the prior contents are not loaded and the words of the
\* block are unspecified (whatever the cache or the allocator left there):
\* <<"uninit", 0, 0>> stands for such a word and equals no word a request
\* expects to find.
FetchedBlocks(b, bJustInitialize) ==
    IF bJustInitialize
    THEN [c \in Cells |-> IF c \in CellsOfBlock(b) THEN UninitWord ELSE blocks[c]]
    ELSE blocks

\* memset(pabySrcBlock, 0, nBandDataSize * nBlockXSize * nBlockYSize)
MemZero(bl, b) == [c \in Cells |-> IF c \in CellsOfBlock(b) THEN ZeroWord ELSE bl[c]]

\* ------------------------------------------------------------------- Init
NoObs == [fetchLog |-> <<>>, progressLog |-> <<>>, stopped |-> FALSE,
          nPolls |-> 0, interrupted |-> FALSE, nFaults |-> 0,
          locks |-> [b \in BlockIds |-> 0], dirty |-> {}, flushErrReturned |-> FALSE,
          path |-> "none"]

NoLoc == [nLBlockX |-> -1, nLBlockY |-> -1, iBufYOff |-> 0, iSrcY |-> 0, iSrcX |-> 0,
          iDstX |-> 0, iDstY |-> 0, poBlock |-> NoBlock, eErr |-> CE_None,
          bMemZeroBuffer |-> FALSE]

NoReq == [eRWFlag |-> GF_Read, nXOff |-> 0, nYOff |-> 0, nXSize |-> 1, nYSize |-> 1,
          nBufXSize |-> 1, nBufYSize |-> 1, pfnProgress |-> FALSE]

Init ==
    /\ \E w \in 1 .. MaxRasterXSize, h \in 1 .. MaxRasterYSize,
          bw \in 1 .. MaxBlockXSize, bh \in 1 .. MaxBlockYSize :
          band = [nRasterXSize |-> w, nRasterYSize |-> h,
                  nBlockXSize |-> bw, nBlockYSize |-> bh,
                  eFlushBlockErr |-> CE_None]
    /\ blocks = [c \in Cells |-> SrcWord(c[1], c[2])]
    /\ req = NoReq
    /\ pData = [c \in {<<0, 0>>} |-> UnsetWord]
    /\ pc = "idle"
    /\ loc = NoLoc
    /\ ret = "none"
    /\ obs = NoObs

\* ------------------------------------------------------- copying of words
\* memcpy / GDALCopyWords of n words from the data of block b, starting at
\* word offset off, to the buffer row starting at <<bi, bj>>.
CopyToBuf(pd, bl, b, off, n, bi, bj) ==
    [d \in DOMAIN pd |->
        IF d[2] = bj /\ bi <= d[1] /\ d[1] < bi + n
        THEN bl[BlockCell(b, off + (d[1] - bi))]
        ELSE pd[d]]

\* memcpy / GDALCopyWords of n words from the buffer row starting at
\* <<bi, bj>> into the data of block b, starting at word offset off.
CopyToBlock(bl, pd, b, off, n, bi, bj) ==
    [c \in Cells |->
        IF \E k \in 0 .. n - 1 : BlockCell(b, off + k) = c
        THEN pd[<<bi + (CHOOSE k \in 0 .. n - 1 : BlockCell(b, off + k) = c), bj>>]
        ELSE bl[c]]

\* ------------------------------------------------------------- the request
\* The test without eRWFlag == GF_Write: a stored error fails a read too.
FlushErrorPendingAnyFlag(eRWFlag, eFlushBlockErr) == eFlushBlockErr # CE_None

\* The test at the top of IRasterIO: a stored flush error fails the request.
FlushErrorPending(eRWFlag, eFlushBlockErr) ==
    eRWFlag = GF_Write /\ eFlushBlockErr # CE_None

\* eFlushBlockErr left as it was when reported.
FlushErrorKept(eFlushBlockErr) == eFlushBlockErr

\* The value eFlushBlockErr is left with once it has been reported.
FlushErrorAfterReport(eFlushBlockErr) == CE_None

\* Which of the cases of IRasterIO serves the request.
CaseOf(eRWFlag, nXSize, nYSize, nBufXSize, nBufYSize, bPacked) ==
    IF bPacked /\ band.nBlockXSize = band.nRasterXSize
       /\ nBufXSize = nXSize /\ nBufYSize = nYSize
    THEN "packed"
    ELSE IF nXSize = nBufXSize /\ nYSize = nBufYSize
    THEN "window"
    ELSE IF eRWFlag = GF_Write THEN "write" ELSE "read"

Return(e) == pc' = "done" /\ ret' = e

\* The locals of IRasterIO when the first loop of the case is entered.
CallLoc(case, nXOff, nYOff) ==
    [NoLoc EXCEPT
       !.iSrcY = nYOff,
       !.iSrcX = nXOff,
       !.iDstX = nXOff,
       !.iDstY = nYOff,
       !.nLBlockX = IF case = "window" \/ case = "read"
                    THEN nXOff \div band.nBlockXSize ELSE -1,
       !.nLBlockY = IF case = "read"
                    THEN nYOff \div band.nBlockYSize ELSE -1]

\* Entry of IRasterIO up to the first loop.  bPacked tells whether the
\* caller's strides are those of a packed buffer (nPixelSpace == nBufDataSize
\* and nLineSpace == nPixelSpace * nXSize).
Call(eRWFlag, nXOff, nYOff, nXSize, nYSize, nBufXSize, nBufYSize, bPacked, bProgress) ==
    /\ pc = "idle"
    /\ req' = [eRWFlag |-> eRWFlag, nXOff |-> nXOff, nYOff |-> nYOff,
               nXSize |-> nXSize, nYSize |-> nYSize,
               nBufXSize |-> nBufXSize, nBufYSize |-> nBufYSize,
               pfnProgress |-> bProgress]
    /\ pData' = [d \in (0 .. nBufXSize - 1) \X (0 .. nBufYSize - 1) |->
                    IF eRWFlag = GF_Write THEN UsrWord(d[1], d[2]) ELSE UnsetWord]
    /\ blocks' = [c \in Cells |-> SrcWord(c[1], c[2])]
    /\ IF FlushErrorPending(eRWFlag, band.eFlushBlockErr)
       THEN /\ Return(band.eFlushBlockErr)
            /\ band' = [band EXCEPT !.eFlushBlockErr = FlushErrorAfterReport(@)]
            /\ loc' = NoLoc
            /\ obs' = [NoObs EXCEPT !.flushErrReturned = TRUE]
       ELSE LET case == CaseOf(eRWFlag, nXSize, nYSize, nBufXSize, nBufYSize, bPacked)
            IN /\ pc' = case
               /\ ret' = "running"
               /\ UNCHANGED band
               /\ obs' = [NoObs EXCEPT !.path = case]
               /\ loc' = CallLoc(case, nXOff, nYOff)

\* The requests RasterIO lets through, drawn from RW and from the buffer
\* sizes BufX and BufY: a window inside the raster and a buffer of at least
\* one pixel.  bDirect selects the requests whose buffer has the size of the
\* window (no resampling), bResampled the others.
CallIn(RW, BufX, BufY, bDirect, bResampled) ==
    /\ pc = "idle"
    /\ \E eRWFlag \in RW,
       nXSize \in 1 .. band.nRasterXSize, nYSize \in 1 .. band.nRasterYSize :
       \E nXOff \in 0 .. band.nRasterXSize - nXSize,
          nYOff \in 0 .. band.nRasterYSize - nYSize,
          nBufXSize \in BufX \cup {nXSize}, nBufYSize \in BufY \cup {nYSize},
          bProgress \in BOOLEAN :
          /\ IF nBufXSize = nXSize /\ nBufYSize = nYSize THEN bDirect ELSE bResampled
          /\ \E bPacked \in (IF CaseOf(eRWFlag, nXSize, nYSize, nBufXSize, nBufYSize,
                                       TRUE) = "packed"
                              THEN BOOLEAN ELSE {FALSE}) :
                Call(eRWFlag, nXOff, nYOff, nXSize, nYSize, nBufXSize, nBufYSize,
                     bPacked, bProgress)

\* Any request.
SomeCall ==
    CallIn({GF_Read, GF_Write}, 1 .. MaxBufXSize, 1 .. MaxBufYSize, TRUE, TRUE)

\* A read or a write that needs no resampling.
DirectCall == CallIn({GF_Read, GF_Write}, {}, {}, TRUE, FALSE)

\* A write, with or without resampling.
WriteCall == CallIn({GF_Write}, 1 .. MaxBufXSize, 1 .. MaxBufYSize, TRUE, TRUE)

\* A read that needs resampling.
ResampledReadCall == CallIn({GF_Read}, 1 .. MaxBufXSize, 1 .. MaxBufYSize, FALSE, TRUE)

\* ------------------------------------------------------ packed full width
\* A test that asks for a block at every row.
PackedNeedsBlockAtEachRow(iSrcY, nLBlockY) == TRUE

PackedNeedsBlock(iSrcY, nLBlockY) ==
    \/ iSrcY < nLBlockY * band.nBlockYSize
    \/ iSrcY - band.nBlockYSize >= nLBlockY * band.nBlockYSize

PackedJustInitialize(nLBlockY) ==
    /\ req.eRWFlag = GF_Write
    /\ req.nXOff = 0 /\ req.nXSize = band.nBlockXSize
    /\ req.nYOff <= nLBlockY * band.nBlockYSize
    /\ req.nYOff + req.nYSize - band.nBlockYSize >= nLBlockY * band.nBlockYSize

PackedMemZeroBuffer(bJustInitialize, nLBlockY) ==
    /\ req.eRWFlag = GF_Write /\ ~bJustInitialize
    /\ req.nXOff = 0 /\ req.nXSize = band.nBlockXSize
    /\ req.nYOff <= nLBlockY * band.nBlockYSize
    /\ req.nYOff + req.nYSize = band.nRasterYSize
    /\ nLBlockY * band.nBlockYSize > band.nRasterYSize - band.nBlockYSize

\* The previous block is left locked.
DropHeldNever(locks, poBlock) == locks

\* if( poBlock ) poBlock->DropLock();
DropHeld(locks, poBlock) == IF poBlock # NoBlock THEN DropLock(locks, poBlock) ELSE locks

\* One iteration of the scanline loop of the packed case.
PackedRow ==
    /\ pc = "packed"
    /\ UNCHANGED <<band, req>>
    /\ LET iSrcY == loc.iBufYOff + req.nYOff
           need == PackedNeedsBlock(iSrcY, loc.nLBlockY)
           ly == IF need THEN iSrcY \div band.nBlockYSize ELSE loc.nLBlockY
           b == <<0, ly>>
           bJI0 == PackedJustInitialize(ly)
           bMZ == PackedMemZeroBuffer(bJI0, ly)
           bJI == bJI0 \/ bMZ
           locks1 == IF need THEN DropHeld(obs.locks, loc.poBlock) ELSE obs.locks
           off == (iSrcY - ly * band.nBlockYSize) * band.nBlockXSize + req.nXOff
       IN
       \E bInterrupted \in (IF need THEN BOOLEAN ELSE {FALSE}) :
       IF bInterrupted
       THEN /\ Return(CE_Interrupted)
            /\ loc' = [loc EXCEPT !.iSrcY = iSrcY, !.nLBlockY = ly]
            /\ obs' = [obs EXCEPT !.locks = locks1, !.nPolls = @ + 1,
                                  !.interrupted = TRUE]
            /\ UNCHANGED <<blocks, pData>>
       ELSE
       \E ok \in (IF need THEN BOOLEAN ELSE {TRUE}),
          cont \in (IF req.pfnProgress THEN BOOLEAN ELSE {TRUE}) :
          LET log1 == IF need THEN Append(obs.fetchLog, <<0, ly, bJI>>) ELSE obs.fetchLog
          IN
          IF ~ok
          THEN /\ Return(CE_Failure)
               /\ loc' = [loc EXCEPT !.iSrcY = iSrcY, !.nLBlockY = ly,
                                     !.poBlock = NoBlock, !.eErr = CE_Failure]
               /\ obs' = [obs EXCEPT !.locks = locks1, !.fetchLog = log1,
                                     !.nPolls = @ + 1, !.nFaults = @ + 1]
               /\ UNCHANGED <<blocks, pData>>
          ELSE
          LET locks2 == IF need THEN AddLock(locks1, b) ELSE locks1
              bl0 == IF need THEN FetchedBlocks(b, bJI) ELSE blocks
              bl1 == IF need /\ bMZ THEN MemZero(bl0, b) ELSE bl0
              bl2 == IF req.eRWFlag = GF_Write
                     THEN CopyToBlock(bl1, pData, b, off, req.nXSize, 0, loc.iBufYOff)
                     ELSE bl1
              pd2 == IF req.eRWFlag = GF_Read
                     THEN CopyToBuf(pData, bl1, b, off, req.nXSize, 0, loc.iBufYOff)
                     ELSE pData
              plog == IF req.pfnProgress
                      THEN Append(obs.progressLog, <<loc.iBufYOff + 1, req.nBufYSize>>)
                      ELSE obs.progressLog
              dirty2 == IF need /\ req.eRWFlag = GF_Write
                        THEN obs.dirty \cup {b} ELSE obs.dirty
              last == ~cont \/ loc.iBufYOff + 1 >= req.nBufYSize
          IN
          /\ blocks' = bl2
          /\ pData' = pd2
          /\ loc' = [loc EXCEPT !.iSrcY = iSrcY, !.nLBlockY = ly, !.poBlock = b,
                                !.bMemZeroBuffer = need /\ bMZ,
                                !.eErr = IF cont THEN CE_None ELSE CE_Failure,
                                !.iBufYOff = IF cont THEN @ + 1 ELSE @]
          /\ obs' = [obs EXCEPT !.fetchLog = log1, !.progressLog = plog,
                                !.dirty = dirty2,
                                !.nPolls = IF need THEN @ + 1 ELSE @,
                                !.stopped = ~cont,
                                !.locks = IF last THEN DropLock(locks2, b) ELSE locks2]
          /\ IF last
             THEN Return(IF cont THEN CE_None ELSE CE_Failure)
             ELSE pc' = "packed" /\ ret' = ret

\* --------------------------------------------------- 1:1 arbitrary window
\* nXRight: the column just right of block column nLBlockX (the INT_MAX
\* saturation of the source cannot trigger for the sizes explored).
WindowXRight(nLBlockX) == nLBlockX * band.nBlockXSize + band.nBlockXSize

WindowXSpan(nLBlockX, iSrcX) ==
    Min(WindowXRight(nLBlockX), req.nBufXSize + req.nXOff) - iSrcX

\* bJustInitialize without the test of the right edge of the block.
WindowJustInitializeNoRight(nLBlockX, nLBlockY) ==
    /\ req.eRWFlag = GF_Write
    /\ req.nYOff <= nLBlockY * band.nBlockYSize
    /\ req.nYOff + req.nYSize - band.nBlockYSize >= nLBlockY * band.nBlockYSize
    /\ req.nXOff <= nLBlockX * band.nBlockXSize

WindowJustInitialize(nLBlockX, nLBlockY) ==
    /\ req.eRWFlag = GF_Write
    /\ req.nYOff <= nLBlockY * band.nBlockYSize
    /\ req.nYOff + req.nYSize - band.nBlockYSize >= nLBlockY * band.nBlockYSize
    /\ req.nXOff <= nLBlockX * band.nBlockXSize
    /\ req.nXOff + req.nXSize >= WindowXRight(nLBlockX)

\* bMemZeroBuffer never set: the partial edge block is loaded, not zeroed.
WindowMemZeroBufferNever(bJustInitialize, nLBlockX, nLBlockY) == FALSE

WindowMemZeroBuffer(bJustInitialize, nLBlockX, nLBlockY) ==
    /\ req.eRWFlag = GF_Write /\ ~bJustInitialize
    /\ req.nXOff <= nLBlockX * band.nBlockXSize
    /\ req.nYOff <= nLBlockY * band.nBlockYSize
    /\ \/ req.nXOff + req.nXSize >= WindowXRight(nLBlockX)
       \/ /\ req.nXOff + req.nXSize = band.nRasterXSize
          /\ WindowXRight(nLBlockX) > band.nRasterXSize
    /\ \/ req.nYOff + req.nYSize - band.nBlockYSize >= nLBlockY * band.nBlockYSize
       \/ /\ req.nYOff + req.nYSize = band.nRasterYSize
          /\ nLBlockY * band.nBlockYSize > band.nRasterYSize - band.nBlockYSize

\* iSrcOffset without the column of iSrcX inside the block.
WindowSrcOffsetNoColumn(iSrcX, iSrcY, nLBlockX, nLBlockY) ==
    (iSrcY - nLBlockY * band.nBlockYSize) * band.nBlockXSize

\* iSrcOffset, in words, of the first word copied from or to the block.
WindowSrcOffset(iSrcX, iSrcY, nLBlockX, nLBlockY) ==
    iSrcX - nLBlockX * band.nBlockXSize
    + (iSrcY - nLBlockY * band.nBlockYSize) * band.nBlockXSize

\* The head of the block-column loop: interruption poll and block fetch.
WindowFetch ==
    /\ pc = "window"
    /\ UNCHANGED <<band, req, pData>>
    /\ LET ly == loc.iSrcY \div band.nBlockYSize
           b == <<loc.nLBlockX, ly>>
           bJI0 == WindowJustInitialize(loc.nLBlockX, ly)
           bMZ == WindowMemZeroBuffer(bJI0, loc.nLBlockX, ly)
           bJI == bJI0 \/ bMZ
       IN
       \E bInterrupted \in BOOLEAN :
       IF bInterrupted
       THEN /\ Return(CE_Interrupted)
            /\ loc' = [loc EXCEPT !.nLBlockY = ly]
            /\ obs' = [obs EXCEPT !.nPolls = @ + 1, !.interrupted = TRUE]
            /\ UNCHANGED blocks
       ELSE
       \E ok \in BOOLEAN :
          IF ~ok
          THEN /\ Return(CE_Failure)
               /\ loc' = [loc EXCEPT !.nLBlockY = ly, !.poBlock = NoBlock]
               /\ obs' = [obs EXCEPT !.fetchLog = Append(@, <<b[1], b[2], bJI>>),
                                     !.nPolls = @ + 1, !.nFaults = @ + 1]
               /\ UNCHANGED blocks
          ELSE
          /\ pc' = "windowcopy"
          /\ ret' = ret
          /\ loc' = [loc EXCEPT !.nLBlockY = ly, !.poBlock = b, !.bMemZeroBuffer = bMZ]
          /\ obs' = [obs EXCEPT !.fetchLog = Append(@, <<b[1], b[2], bJI>>),
                                !.nPolls = @ + 1,
                                !.locks = AddLock(@, b),
                                !.dirty = IF req.eRWFlag = GF_Write THEN @ \cup {b} ELSE @]
          /\ blocks' = IF bMZ THEN MemZero(FetchedBlocks(b, bJI), b)
                       ELSE FetchedBlocks(b, bJI)

RECURSIVE WindowCopyRows(_, _, _, _, _, _)
\* The loop over k: the rows of the loaded block, nXSpan words each.
WindowCopyRows(k, kmax, bl, pd, b, nXSpan) ==
    IF k >= kmax THEN <<bl, pd>>
    ELSE LET off == WindowSrcOffset(loc.iSrcX, loc.iSrcY, b[1], b[2])
                    + k * band.nBlockXSize
             bi == loc.iSrcX - req.nXOff
             bj == loc.iBufYOff + k
         IN IF req.eRWFlag = GF_Read
            THEN WindowCopyRows(k + 1, kmax, bl,
                                CopyToBuf(pd, bl, b, off, nXSpan, bi, bj), b, nXSpan)
            ELSE WindowCopyRows(k + 1, kmax,
                                CopyToBlock(bl, pd, b, off, nXSpan, bi, bj),
                                pd, b, nXSpan)

\* The fraction without std::min.
WindowProgressUnclamped(iBufYOff, nYInc) == <<iBufYOff + nYInc, req.nBufYSize>>

\* The fraction 1.0 * std::min(nBufYSize, iBufYOff + nYInc) / nBufYSize, as
\* <<numerator, denominator>>.
WindowProgress(iBufYOff, nYInc) ==
    <<Min(req.nBufYSize, iBufYOff + nYInc), req.nBufYSize>>

\* The rest of the block-column loop body, and the end of the row-band loop
\* body when this was the last block column.
WindowCopy ==
    /\ pc = "windowcopy"
    /\ UNCHANGED <<band, req>>
    /\ LET b == loc.poBlock
           nXSpan == WindowXSpan(loc.nLBlockX, loc.iSrcX)
           kmax == Min(band.nBlockYSize - (loc.iSrcY % band.nBlockYSize),
                       req.nBufYSize - loc.iBufYOff)
           res == WindowCopyRows(0, kmax, blocks, pData, b, nXSpan)
           iSrcX2 == loc.iSrcX + nXSpan
           locks2 == DropLock(obs.locks, b)
           nYInc == band.nBlockYSize - (loc.iSrcY % band.nBlockYSize)
       IN
       /\ blocks' = res[1]
       /\ pData' = res[2]
       /\ IF iSrcX2 < req.nBufXSize + req.nXOff
          THEN /\ pc' = "window"
               /\ ret' = ret
               /\ loc' = [loc EXCEPT !.nLBlockX = @ + 1, !.iSrcX = iSrcX2,
                                     !.poBlock = NoBlock]
               /\ obs' = [obs EXCEPT !.locks = locks2]
          ELSE
          \E cont \in (IF req.pfnProgress THEN BOOLEAN ELSE {TRUE}) :
             LET plog == IF req.pfnProgress
                         THEN Append(obs.progressLog,
                                     WindowProgress(loc.iBufYOff, nYInc))
                         ELSE obs.progressLog
                 more == cont /\ loc.iBufYOff + nYInc < req.nBufYSize
             IN
             /\ obs' = [obs EXCEPT !.locks = locks2, !.progressLog = plog,
                                   !.stopped = ~cont]
             /\ loc' = [loc EXCEPT
                          !.poBlock = NoBlock,
                          !.nLBlockX = IF more THEN req.nXOff \div band.nBlockXSize
                                       ELSE @ + 1,
                          !.iSrcX = IF more THEN req.nXOff ELSE iSrcX2,
                          !.iBufYOff = IF cont THEN @ + nYInc ELSE @,
                          !.iSrcY = IF cont THEN @ + nYInc ELSE @]
             /\ IF more THEN pc' = "window" /\ ret' = ret
                ELSE Return(IF cont THEN CE_None ELSE CE_Failure)

\* ------------------------------------------------------- resampled write
WriteNeedsBlock(iDstX, iDstY, nLBlockX, nLBlockY) ==
    \/ iDstX < nLBlockX * band.nBlockXSize
    \/ iDstX - band.nBlockXSize >= nLBlockX * band.nBlockXSize
    \/ iDstY < nLBlockY * band.nBlockYSize
    \/ iDstY - band.nBlockYSize >= nLBlockY * band.nBlockYSize

WriteJustInitialize(nLBlockX, nLBlockY) ==
    /\ req.nYOff <= nLBlockY * band.nBlockYSize
    /\ req.nYOff + req.nYSize - band.nBlockYSize >= nLBlockY * band.nBlockYSize
    /\ req.nXOff <= nLBlockX * band.nBlockXSize
    /\ req.nXOff + req.nXSize - band.nBlockXSize >= nLBlockX * band.nBlockXSize

\* iBufXOff = (int)((iDstX - nXOff) / dfSrcXInc), dfSrcXInc = nXSize / nBufXSize.
WriteBufXOff(iDstX) == ((iDstX - req.nXOff) * req.nBufXSize) \div req.nXSize

\* iBufYOff = (int)((iDstY - nYOff) / dfSrcYInc), dfSrcYInc = nYSize / nBufYSize.
WriteBufYOff(iDstY) == ((iDstY - req.nYOff) * req.nBufYSize) \div req.nYSize

\* iDstOffset, in words.
WriteDstOffset(iDstX, iDstY, nLBlockX, nLBlockY) ==
    iDstX - nLBlockX * band.nBlockXSize
    + (iDstY - nLBlockY * band.nBlockYSize) * band.nBlockXSize

\* The iterations of the pixel loop from iDstX up to the next block column
\* (or the end of the row): at most the first of them fetches a block.  When
\* the row ends, the progress callback and the step to the next row follow.
WriteRun ==
    /\ pc = "write"
    /\ UNCHANGED <<band, req, pData>>
    /\ LET need == WriteNeedsBlock(loc.iDstX, loc.iDstY, loc.nLBlockX, loc.nLBlockY)
           lx == IF need THEN loc.iDstX \div band.nBlockXSize ELSE loc.nLBlockX
           ly == IF need THEN loc.iDstY \div band.nBlockYSize ELSE loc.nLBlockY
           b == <<lx, ly>>
           bJI == WriteJustInitialize(lx, ly)
           locks1 == IF need THEN DropHeld(obs.locks, loc.poBlock) ELSE obs.locks
           log1 == IF need THEN Append(obs.fetchLog, <<lx, ly, bJI>>) ELSE obs.fetchLog
           runEnd == Min(req.nXOff + req.nXSize, (lx + 1) * band.nBlockXSize)
           run == loc.iDstX .. runEnd - 1
       IN
       \E ok \in (IF need THEN BOOLEAN ELSE {TRUE}) :
          IF ~ok
          THEN /\ Return(CE_Failure)
               /\ loc' = [loc EXCEPT !.nLBlockX = lx, !.nLBlockY = ly,
                                     !.poBlock = NoBlock]
               /\ obs' = [obs EXCEPT !.locks = locks1, !.fetchLog = log1,
                                     !.nFaults = @ + 1]
               /\ UNCHANGED blocks
          ELSE
          LET bl0 == IF need THEN FetchedBlocks(b, bJI) ELSE blocks
              bl1 == [c \in Cells |->
                        IF \E x \in run :
                              BlockCell(b, WriteDstOffset(x, loc.iDstY, lx, ly)) = c
                        THEN pData[<<WriteBufXOff(
                                       CHOOSE x \in run :
                                         BlockCell(b, WriteDstOffset(x, loc.iDstY, lx, ly)) = c),
                                     WriteBufYOff(loc.iDstY)>>]
                        ELSE bl0[c]]
              locks2 == IF need THEN AddLock(locks1, b) ELSE locks1
              dirty2 == IF need THEN obs.dirty \cup {b} ELSE obs.dirty
              rowEnd == runEnd = req.nXOff + req.nXSize
          IN
          /\ blocks' = bl1
          /\ IF ~rowEnd
             THEN /\ pc' = "write"
                  /\ ret' = ret
                  /\ loc' = [loc EXCEPT !.nLBlockX = lx, !.nLBlockY = ly,
                                        !.poBlock = b, !.iDstX = runEnd]
                  /\ obs' = [obs EXCEPT !.locks = locks2, !.fetchLog = log1,
                                        !.dirty = dirty2]
             ELSE
             \E cont \in (IF req.pfnProgress THEN BOOLEAN ELSE {TRUE}) :
                LET plog == IF req.pfnProgress
                            THEN Append(obs.progressLog,
                                        <<loc.iDstY - req.nYOff + 1, req.nYSize>>)
                            ELSE obs.progressLog
                    more == cont /\ loc.iDstY + 1 < req.nYOff + req.nYSize
                IN
                /\ loc' = [loc EXCEPT !.nLBlockX = lx, !.nLBlockY = ly,
                                      !.poBlock = b,
                                      !.eErr = IF cont THEN CE_None ELSE CE_Failure,
                                      !.iDstX = IF more THEN req.nXOff ELSE runEnd,
                                      !.iDstY = IF cont THEN @ + 1 ELSE @]
                /\ obs' = [obs EXCEPT !.fetchLog = log1, !.dirty = dirty2,
                                      !.progressLog = plog, !.stopped = ~cont,
                                      !.locks = IF more THEN locks2
                                                ELSE DropLock(locks2, b)]
                /\ IF more THEN pc' = "write" /\ ret' = ret
                   ELSE Return(IF cont THEN CE_None ELSE CE_Failure)

\* ------------------------------------------- nearest-neighbour resampled read
\* iBufXOff / iBufYOff: (int)((nLBlock * nBlockSize - nOff) / dfSrcInc),
\* raised to 0.
ReadBufOff(nLBlock, nBlockSize, nOff, nSize, nBufSize) ==
    IF (nLBlock * nBlockSize - nOff) * nBufSize < 0 THEN 0
    ELSE ((nLBlock * nBlockSize - nOff) * nBufSize) \div nSize

\* iBufXLim / iBufYLim: (int)ceil(((nLBlock + 1) * nBlockSize - nOff) / dfSrcInc),
\* lowered to the buffer size.
ReadBufLim(nLBlock, nBlockSize, nOff, nSize, nBufSize) ==
    Min(nBufSize,
        (((nLBlock + 1) * nBlockSize - nOff) * nBufSize + nSize - 1) \div nSize)

\* The source coordinate without the half-pixel shift: (int)(iBuf * dfSrcInc + nOff).
NearestSrcNoHalf(iBuf, nOff, nSize, nBufSize) ==
    nOff + (iBuf * nSize) \div nBufSize

\* (int)((iBuf + 0.5) * dfSrcInc + nOff + EPS)
NearestSrc(iBuf, nOff, nSize, nBufSize) ==
    nOff + ((2 * iBuf + 1) * nSize) \div (2 * nBufSize)

\* The clamp of iSrcX / iSrcY to the extent of the block being copied.
ClampToBlock(iSrc, nLBlock, nBlockSize) ==
    IF iSrc < nLBlock * nBlockSize THEN nLBlock * nBlockSize
    ELSE IF iSrc >= (nLBlock + 1) * nBlockSize THEN (nLBlock + 1) * nBlockSize - 1
    ELSE iSrc

\* iSrcOffset, in words, of the source word of buffer pixel <<i, j>> in block b.
ReadSrcOffset(i, j, b) ==
    LET iSrcY == ClampToBlock(NearestSrc(j, req.nYOff, req.nYSize, req.nBufYSize),
                              b[2], band.nBlockYSize)
        iSrcX == ClampToBlock(NearestSrc(i, req.nXOff, req.nXSize, req.nBufXSize),
                              b[1], band.nBlockXSize)
    IN (iSrcX - b[1] * band.nBlockXSize)
       + (iSrcY - b[2] * band.nBlockYSize) * band.nBlockXSize

\* Where the two block loops stand after the body for block <<lx, ly>> ended
\* (bBreak: with a break out of the block-column loop): the next block, or
\* NoBlock when both loops are over.
ReadNextBlock(lx, ly, bBreak) ==
    LET nEndBlockX == (req.nXOff + req.nXSize - 1) \div band.nBlockXSize
        nEndBlockY == (req.nYOff + req.nYSize - 1) \div band.nBlockYSize
    IN IF ~bBreak /\ lx + 1 <= nEndBlockX THEN <<lx + 1, ly>>
       ELSE IF ly + 1 <= nEndBlockY THEN <<req.nXOff \div band.nBlockXSize, ly + 1>>
       ELSE NoBlock

\* One iteration of the block-column loop of the read case.  fetch is what
\* GetLockedBlockRef and GetDataRef give: "ok", "fail" (no block) or "nodata"
\* (a block whose data pointer is null).  iLast is the last buffer row the
\* row loop handles before it ends or is left by a break.
ReadBlock ==
    /\ pc = "read"
    /\ UNCHANGED <<band, req, blocks>>
    /\ LET b == <<loc.nLBlockX, loc.nLBlockY>>
           locks1 == DropHeld(obs.locks, loc.poBlock)
           yLo == ReadBufOff(b[2], band.nBlockYSize, req.nYOff, req.nYSize, req.nBufYSize)
           yLim == ReadBufLim(b[2], band.nBlockYSize, req.nYOff, req.nYSize, req.nBufYSize)
           xLo == ReadBufOff(b[1], band.nBlockXSize, req.nXOff, req.nXSize, req.nBufXSize)
           xLim == ReadBufLim(b[1], band.nBlockXSize, req.nXOff, req.nXSize, req.nBufXSize)
       IN
       \E bInterrupted \in BOOLEAN :
       IF bInterrupted
       THEN /\ Return(CE_Interrupted)
            /\ obs' = [obs EXCEPT !.locks = locks1, !.nPolls = @ + 1,
                                  !.interrupted = TRUE]
            /\ UNCHANGED <<loc, pData>>
       ELSE
       \E fetch \in (IF obs.nFaults < MaxFaults THEN {"ok", "fail", "nodata"}
                     ELSE {"ok"}) :
          LET log1 == Append(obs.fetchLog, <<b[1], b[2], FALSE>>)
          IN
          IF fetch # "ok"
          THEN LET nxt == ReadNextBlock(b[1], b[2], TRUE)
                   held == IF fetch = "fail" THEN NoBlock ELSE b
                   \* "nodata": locked by the fetch, dropped before the break
                   locks2 == locks1
               IN
               /\ pData' = pData
               /\ IF nxt = NoBlock
                  THEN /\ Return(CE_Failure)
                       /\ loc' = [loc EXCEPT !.poBlock = held, !.eErr = CE_Failure]
                       /\ obs' = [obs EXCEPT !.fetchLog = log1,
                                             !.nPolls = @ + 1, !.nFaults = @ + 1,
                                             !.locks = DropHeld(locks2, held)]
                  ELSE /\ pc' = "read"
                       /\ ret' = ret
                       /\ loc' = [loc EXCEPT !.poBlock = held, !.eErr = CE_Failure,
                                             !.nLBlockX = nxt[1], !.nLBlockY = nxt[2]]
                       /\ obs' = [obs EXCEPT !.fetchLog = log1, !.locks = locks2,
                                             !.nPolls = @ + 1, !.nFaults = @ + 1]
          ELSE
          \E iLast \in yLo .. yLim - 1, cont \in BOOLEAN :
             /\ IF loc.eErr = CE_Failure THEN iLast = yLo /\ cont
                ELSE IF req.pfnProgress THEN (iLast < yLim - 1 => ~cont)
                ELSE iLast = yLim - 1 /\ cont
             /\ LET locks2 == AddLock(locks1, b)
                    nCalls == IF req.pfnProgress /\ loc.eErr # CE_Failure
                              THEN iLast - yLo + 1 ELSE 0
                    plog == obs.progressLog \o
                            [n \in 1 .. nCalls |-> <<yLo + n, req.nBufYSize>>]
                    eErr2 == IF cont THEN loc.eErr ELSE CE_Failure
                    nxt == ReadNextBlock(b[1], b[2], FALSE)
                IN
                /\ pData' = [d \in DOMAIN pData |->
                               IF yLo <= d[2] /\ d[2] <= iLast
                                  /\ xLo <= d[1] /\ d[1] < xLim
                               THEN blocks[BlockCell(b, ReadSrcOffset(d[1], d[2], b))]
                               ELSE pData[d]]
                /\ IF nxt = NoBlock
                   THEN /\ Return(eErr2)
                        /\ loc' = [loc EXCEPT !.poBlock = b, !.eErr = eErr2,
                                              !.iBufYOff = iLast]
                        /\ obs' = [obs EXCEPT !.fetchLog = log1, !.progressLog = plog,
                                              !.nPolls = @ + 1,
                                              !.stopped = @ \/ ~cont,
                                              !.locks = DropLock(locks2, b)]
                   ELSE /\ pc' = "read"
                        /\ ret' = ret
                        /\ loc' = [loc EXCEPT !.poBlock = b, !.eErr = eErr2,
                                              !.iBufYOff = iLast,
                                              !.nLBlockX = nxt[1], !.nLBlockY = nxt[2]]
                        /\ obs' = [obs EXCEPT !.fetchLog = log1, !.progressLog = plog,
                                              !.nPolls = @ + 1,
                                              !.stopped = @ \/ ~cont,
                                              !.locks = locks2]

\* ------------------------------------------------------------ environment
\* The cache flushes a block the last request marked dirty, after that
\* request returned, and the write of the block fails.
FlushBlockFails ==
    /\ pc = "done" /\ obs.dirty # {} /\ band.eFlushBlockErr = CE_None
    /\ band' = [band EXCEPT !.eFlushBlockErr = CE_Failure]
    /\ UNCHANGED <<blocks, req, pData, pc, loc, ret, obs>>

\* The caller takes the result: the frame of IRasterIO and the buffer of the
\* request are gone, the band and the dataset stay as the request left them.
Leave ==
    /\ pc = "done"
    /\ pc' = "idle"
    /\ req' = NoReq
    /\ pData' = [c \in {<<0, 0>>} |-> UnsetWord]
    /\ loc' = NoLoc
    /\ obs' = NoObs
    /\ blocks' = [c \in Cells |-> SrcWord(c[1], c[2])]
    /\ ret' = "none"
    /\ UNCHANGED band

Next ==
    \/ SomeCall
    \/ Leave
    \/ PackedRow
    \/ WindowFetch
    \/ WindowCopy
    \/ WriteRun
    \/ ReadBlock
    \/ FlushBlockFails

Spec == Init /\ [][Next]_vars

\* Requests without resampling only.
NextDirect ==
    \/ DirectCall
    \/ Leave
    \/ PackedRow
    \/ WindowFetch
    \/ WindowCopy
    \/ FlushBlockFails

SpecDirect == Init /\ [][NextDirect]_vars

\* Every case that can write: the packed, the 1:1 window and the resampled
\* write case, with the reads the first two serve as well.
NextWrite ==
    \/ WriteCall
    \/ DirectCall
    \/ Leave
    \/ PackedRow
    \/ WindowFetch
    \/ WindowCopy
    \/ WriteRun
    \/ FlushBlockFails

SpecWrite == Init /\ [][NextWrite]_vars

\* Resampled reads only.
NextRead ==
    \/ ResampledReadCall
    \/ Leave
    \/ ReadBlock

SpecRead == Init /\ [][NextRead]_vars

\* The scenarios: reads of a ScenarioRasterSize x ScenarioRasterSize raster
\* cut in ScenarioBlockSize x ScenarioBlockSize blocks.
InitScenario ==
    /\ band = [nRasterXSize |-> ScenarioRasterSize, nRasterYSize |-> ScenarioRasterSize,
               nBlockXSize |-> ScenarioBlockSize, nBlockYSize |-> ScenarioBlockSize,
               eFlushBlockErr |-> CE_None]
    /\ blocks = [c \in Cells |-> SrcWord(c[1], c[2])]
    /\ req = NoReq
    /\ pData = [c \in {<<0, 0>>} |-> UnsetWord]
    /\ pc = "idle"
    /\ loc = NoLoc
    /\ ret = "none"
    /\ obs = NoObs

ScenarioCall ==
    CallIn({GF_Read}, 1 .. ScenarioRasterSize, 1 .. ScenarioRasterSize, TRUE, TRUE)

NextScenario ==
    \/ ScenarioCall
    \/ Leave
    \/ WindowFetch
    \/ WindowCopy
    \/ ReadBlock

SpecScenario == InitScenario /\ [][NextScenario]_vars

\* ------------------------------------------------------- the same read twice
\* A read into a buffer of the size of the window.
DirectReadCall == CallIn({GF_Read}, {}, {}, TRUE, FALSE)

\* After a read that returned CE_None the caller keeps the buffer it got
\* (first) and issues the same request again, with a new buffer, on the band
\* as the first read left it: nothing is written in between.
ReadAgain ==
    /\ pc = "done" /\ ret = CE_None
    /\ req.eRWFlag = GF_Read
    /\ "first" \notin DOMAIN obs
    /\ pc' = obs.path
    /\ ret' = "running"
    /\ pData' = [d \in DOMAIN pData |-> UnsetWord]
    /\ loc' = CallLoc(obs.path, req.nXOff, req.nYOff)
    /\ obs' = [NoObs EXCEPT !.path = obs.path] @@ [first |-> pData]
    /\ UNCHANGED <<band, blocks, req>>

NextReadTwice ==
    \/ DirectReadCall
    \/ ReadAgain
    \/ Leave
    \/ PackedRow
    \/ WindowFetch
    \/ WindowCopy

SpecReadTwice == Init /\ [][NextReadTwice]_vars

\* ------------------------------------------------------- a write read back
\* A write from a buffer of the size of the window.
DirectWriteCall == CallIn({GF_Write}, {}, {}, TRUE, FALSE)

\* After a write that returned CE_None the caller keeps the buffer it wrote
\* (written) and reads the same window into a new buffer of the same size, on
\* the band as the write left it.  The strides of the new buffer are those of
\* a packed buffer or not, whatever those of the first were.
ReadBack ==
    /\ pc = "done" /\ ret = CE_None
    /\ req.eRWFlag = GF_Write
    /\ obs.path \in {"packed", "window"}
    /\ \E bPacked \in BOOLEAN :
          LET case == CaseOf(GF_Read, req.nXSize, req.nYSize,
                             req.nBufXSize, req.nBufYSize, bPacked)
          IN /\ pc' = case
             /\ loc' = CallLoc(case, req.nXOff, req.nYOff)
             /\ obs' = [NoObs EXCEPT !.path = case] @@ [written |-> pData]
    /\ ret' = "running"
    /\ req' = [req EXCEPT !.eRWFlag = GF_Read]
    /\ pData' = [d \in DOMAIN pData |-> UnsetWord]
    /\ UNCHANGED <<band, blocks>>

NextWriteRead ==
    \/ DirectWriteCall
    \/ ReadBack
    \/ Leave
    \/ PackedRow
    \/ WindowFetch
    \/ WindowCopy

SpecWriteRead == Init /\ [][NextWriteRead]_vars

\* ===================================================== best overview level
\* GDALBandGetBestOverviewLevel2.  In the specification of this function band
\* is [nRasterXSize, nRasterYSize, papoOverviews], req the window and buffer
\* size passed in (the window is rewritten on return), loc the locals of the
\* loop, ret the level returned; blocks, pData and obs are not used.
\*
\* A resolution is the exact quotient <<n, d>> of two sizes.  The code compares
\* doubles; two different quotients of sizes this small are different doubles
\* in the same order, so only dfResolution >= dfDesiredResolution * 1.2 can
\* differ from the exact comparison, and only when the overview's resolution is
\* exactly 6/5 of the desired one: the rounding of the product then decides
\* (6/5 against 1 is rejected, 7/5 against 7/6 is accepted), and the model
\* lets either happen.
RatLess(a, b) == a[1] * b[2] < b[1] * a[2]
RatLeq(a, b) == a[1] * b[2] <= b[1] * a[2]

\* GetOverview() returned nullptr.
NullOverview == [nRasterXSize |-> 0, nRasterYSize |-> 0, bAverageBit2 |-> FALSE]

\* The overviews of a w x h band explored: each keeps the shape of the band
\* (ceil(h * ow / w) rows for ow columns) and may carry a RESAMPLING metadata
\* item that starts with AVERAGE_BIT2.
OverviewsOf(w, h) ==
    {NullOverview} \cup
    {[nRasterXSize |-> ow, nRasterYSize |-> (h * ow + w - 1) \div w, bAverageBit2 |-> t] :
        ow \in 1 .. w, t \in BOOLEAN}

OverviewLists(w, h) ==
    UNION {[1 .. n -> OverviewsOf(w, h)] : n \in 0 .. MaxOverviews}

\* dfDesiredResolution
DesiredResolution(nXSize, nYSize, nBufXSize, nBufYSize) ==
    IF RatLess(<<nXSize, nBufXSize>>, <<nYSize, nBufYSize>>) \/ nBufYSize = 1
    THEN <<nXSize, nBufXSize>>
    ELSE <<nYSize, nBufYSize>>

\* dfResolution of overview o
OverviewResolution(o) ==
    IF RatLess(<<band.nRasterXSize, o.nRasterXSize>>, <<band.nRasterYSize, o.nRasterYSize>>)
    THEN <<band.nRasterXSize, o.nRasterXSize>>
    ELSE <<band.nRasterYSize, o.nRasterYSize>>

\* dfDesiredResolution * 1.2
DesiredLimit(dfDesired) == <<6 * dfDesired[1], 5 * dfDesired[2]>>

\* dfResolution >= dfDesiredResolution: the test without the factor 1.2.
OverviewCoarserThanDesired(dfResolution, dfDesired, bRoundedUp) ==
    RatLeq(dfDesired, dfResolution)

\* dfResolution >= dfDesiredResolution * 1.2; bRoundedUp tells whether the
\* rounded product is above an overview resolution it equals exactly.
OverviewTooCoarse(dfResolution, dfDesired, bRoundedUp) ==
    \/ RatLess(DesiredLimit(dfDesired), dfResolution)
    \/ /\ ~RatLess(dfResolution, DesiredLimit(dfDesired))
       /\ ~bRoundedUp

InitOverview ==
    /\ \E w \in 1 .. MaxOvrRasterSize, h \in 1 .. MaxOvrRasterSize :
          /\ \E ovr \in OverviewLists(w, h) :
                band = [nRasterXSize |-> w, nRasterYSize |-> h, papoOverviews |-> ovr]
          /\ \E bx \in 1 .. w, by \in 1 .. h :
                req = [nXOff |-> 0, nYOff |-> 0, nXSize |-> w, nYSize |-> h,
                       nBufXSize |-> bx, nBufYSize |-> by]
    /\ loc = [iOverview |-> 0, nBestOverviewLevel |-> -1, dfBestResolution |-> <<0, 1>>]
    /\ pc = "ovrscan"
    /\ ret = "none"
    /\ blocks = <<>>
    /\ pData = <<>>
    /\ obs = <<>>

\* One iteration of the loop over the overviews.
BestOverviewScan ==
    /\ pc = "ovrscan"
    /\ loc.iOverview < Len(band.papoOverviews)
    /\ LET poOverview == band.papoOverviews[loc.iOverview + 1]
           dfDesired == DesiredResolution(req.nXSize, req.nYSize,
                                          req.nBufXSize, req.nBufYSize)
       IN \E bRoundedUp \in BOOLEAN :
             IF poOverview = NullOverview
             THEN loc' = [loc EXCEPT !.iOverview = @ + 1]
             ELSE LET dfResolution == OverviewResolution(poOverview)
                  IN IF \/ OverviewTooCoarse(dfResolution, dfDesired, bRoundedUp)
                        \/ RatLeq(dfResolution, loc.dfBestResolution)
                        \/ poOverview.bAverageBit2
                     THEN loc' = [loc EXCEPT !.iOverview = @ + 1]
                     ELSE loc' = [iOverview |-> loc.iOverview + 1,
                                  nBestOverviewLevel |-> loc.iOverview,
                                  dfBestResolution |-> dfResolution]
    /\ UNCHANGED <<band, blocks, req, pData, pc, ret, obs>>

\* static_cast<int>(n / dfRes + 0.5) for dfRes = nBand / nOvr
ToOverview(n, nBand, nOvr) == (2 * n * nOvr + nBand) \div (2 * nBand)

\* The end of the loop: -1, or the level found with the window recomputed in
\* the pixels of that overview.
BestOverviewReturn ==
    /\ pc = "ovrscan"
    /\ loc.iOverview = Len(band.papoOverviews)
    /\ pc' = "ovrdone"
    /\ ret' = loc.nBestOverviewLevel
    /\ IF loc.nBestOverviewLevel < 0
       THEN req' = req
       ELSE LET poBestOverview == band.papoOverviews[loc.nBestOverviewLevel + 1]
                nOXOff == Min(poBestOverview.nRasterXSize - 1,
                              ToOverview(req.nXOff, band.nRasterXSize,
                                         poBestOverview.nRasterXSize))
                nOYOff == Min(poBestOverview.nRasterYSize - 1,
                              ToOverview(req.nYOff, band.nRasterYSize,
                                         poBestOverview.nRasterYSize))
                nOXSize == Max(1, ToOverview(req.nXSize, band.nRasterXSize,
                                             poBestOverview.nRasterXSize))
                nOYSize == Max(1, ToOverview(req.nYSize, band.nRasterYSize,
                                             poBestOverview.nRasterYSize))
            IN req' = [req EXCEPT
                         !.nXOff = nOXOff,
                         !.nYOff = nOYOff,
                         !.nXSize = IF nOXOff + nOXSize > poBestOverview.nRasterXSize
                                    THEN poBestOverview.nRasterXSize - nOXOff
                                    ELSE nOXSize,
                         !.nYSize = IF nOYOff + nOYSize > poBestOverview.nRasterYSize
                                    THEN poBestOverview.nRasterYSize - nOYOff
                                    ELSE nOYSize]
    /\ UNCHANGED <<band, blocks, pData, loc, obs>>

NextOverview ==
    \/ BestOverviewScan
    \/ BestOverviewReturn

SpecOverview == InitOverview /\ [][NextOverview]_vars

\* ------------------------------------------- the overview branch of IRasterIO
\* The choice IRasterIO makes of the case that serves a request: the packed
\* case, the test of the overviews, the call of GDALBandGetBestOverviewLevel2
\* (the loop above, which rewrites the window of the caller), the reissue on
\* the overview found, the GDAL_NO_COSTLY_OVERVIEW short cut, the 1:1 case and
\* the general write and read cases.  req carries the arguments of the call
\* and the configuration, obs the window as the caller gave it.  The window
\* of psExtraArg is held in halves of a pixel (dfXOff2 = 2 * dfXOff).

\* The sizes of the bands: small ones and one wide enough for a buffer to be
\* less than a hundredth of the window.
OverviewIOSizes == (1 .. MaxRedirectSize) \cup {WideRasterSize}

\* The overviews of a w x h band explored here: reduced by 2 and by 4.
ReducedOverviewsOf(w, h) ==
    {NullOverview} \cup
    {[nRasterXSize |-> (w + f - 1) \div f, nRasterYSize |-> (h + f - 1) \div f,
      bAverageBit2 |-> t] : f \in {2, 4}, t \in BOOLEAN}

InitOverviewIO ==
    /\ \E w \in OverviewIOSizes, h \in OverviewIOSizes \ {MaxRedirectSize} :
          /\ \E n \in 0 .. MaxOverviews, nBlockXSize \in {1, w} :
                \E ovr \in [1 .. n -> ReducedOverviewsOf(w, h)] :
                   band = [nRasterXSize |-> w, nRasterYSize |-> h,
                           nBlockXSize |-> nBlockXSize, papoOverviews |-> ovr]
          /\ \E nXSize \in {w, Max(1, w - 1)} :
                \E nBufXSize \in {1, nXSize, nXSize + 1}, nBufYSize \in {1, h},
                   eRWFlag \in {GF_Read, GF_Write},
                   bPacked \in BOOLEAN, bNoCostlyOverview \in BOOLEAN,
                   bFloatingPointWindowValidity \in BOOLEAN, nHalves \in {0, 1} :
                   /\ bFloatingPointWindowValidity \/ nHalves = 0
                   /\ req = [eRWFlag |-> eRWFlag,
                             nXOff |-> w - nXSize, nYOff |-> 0,
                             nXSize |-> nXSize, nYSize |-> h,
                             nBufXSize |-> nBufXSize, nBufYSize |-> nBufYSize,
                             bPacked |-> bPacked,
                             bNoCostlyOverview |-> bNoCostlyOverview,
                             bFloatingPointWindowValidity |-> bFloatingPointWindowValidity,
                             dfXOff2 |-> 2 * (w - nXSize) + nHalves, dfYOff2 |-> 0,
                             dfXSize2 |-> 2 * nXSize - nHalves, dfYSize2 |-> 2 * h]
                   /\ obs = [nXOff |-> w - nXSize, nYOff |-> 0,
                             nXSize |-> nXSize, nYSize |-> h]
    /\ loc = [iOverview |-> 0, nBestOverviewLevel |-> -1, dfBestResolution |-> <<0, 1>>]
    /\ pc = "iocall"
    /\ ret = "none"
    /\ blocks = <<>>
    /\ pData = <<>>

\* bUseIntegerRequestCoords
UseIntegerRequestCoords(r) ==
    \/ ~r.bFloatingPointWindowValidity
    \/ /\ 2 * r.nXOff = r.dfXOff2 /\ 2 * r.nYOff = r.dfYOff2
       /\ 2 * r.nXSize = r.dfXSize2 /\ 2 * r.nYSize = r.dfYSize2

\* The test of the packed case: a packed buffer of the size of the window on
\* a band whose blocks are as wide as the raster.
IsPackedCase(r, nBlockXSize, nRasterXSize) ==
    /\ r.bPacked
    /\ nBlockXSize = nRasterXSize
    /\ r.nBufXSize = r.nXSize
    /\ r.nBufYSize = r.nYSize
    /\ UseIntegerRequestCoords(r)

\* The test of the 1:1 case.
IsWindowCaseWithoutCoords(r) ==
    /\ r.nXSize = r.nBufXSize
    /\ r.nYSize = r.nBufYSize

IsWindowCase(r) ==
    /\ r.nXSize = r.nBufXSize
    /\ r.nYSize = r.nBufYSize
    /\ UseIntegerRequestCoords(r)

\* if( (nBufXSize < nXSize || nBufYSize < nYSize)
\*     && GetOverviewCount() > 0 && eRWFlag == GF_Read )
OverviewBranchForAnyFlag(r, nOverviewCount) ==
    /\ r.nBufXSize < r.nXSize \/ r.nBufYSize < r.nYSize
    /\ nOverviewCount > 0

OverviewBranchTaken(r, nOverviewCount) ==
    /\ r.nBufXSize < r.nXSize \/ r.nBufYSize < r.nYSize
    /\ nOverviewCount > 0
    /\ r.eRWFlag = GF_Read

\* The test that follows the overview branch: a read into a packed buffer of
\* less than a hundredth of the window in both dimensions is answered with
\* zeroes when the configuration option GDAL_NO_COSTLY_OVERVIEW is set.
NoCostlyOverview(r) ==
    /\ r.eRWFlag = GF_Read
    /\ r.nBufXSize < r.nXSize \div 100
    /\ r.nBufYSize < r.nYSize \div 100
    /\ r.bPacked
    /\ r.bNoCostlyOverview

\* Where the call goes once the overview branch is left without a reissue:
\* the 1:1 case, or the general case of a write or of a read, each of which
\* steps through the window by dfXSize / nBufXSize and dfYSize / nBufYSize.
AfterOverviewBranch(r) ==
    IF NoCostlyOverview(r) THEN "zeroed"
    ELSE IF IsWindowCase(r) THEN "window"
    ELSE IF r.eRWFlag = GF_Write THEN "write" ELSE "read"

IRasterIOOverviewTest ==
    /\ pc = "iocall"
    /\ pc' = IF IsPackedCase(req, band.nBlockXSize, band.nRasterXSize)
             THEN "packed"
             ELSE IF OverviewBranchTaken(req, Len(band.papoOverviews))
             THEN "ovrscan"
             ELSE AfterOverviewBranch(req)
    /\ UNCHANGED <<band, blocks, req, pData, loc, ret, obs>>

\* if (nOverview >= 0) return poOverviewBand->RasterIO(...), with the window
\* that GDALBandGetBestOverviewLevel2 left in nXOff, nYOff, nXSize, nYSize.
IRasterIOOverviewReissue ==
    /\ pc = "ovrdone"
    /\ pc' = IF ret >= 0
             THEN IF band.papoOverviews[ret + 1] = NullOverview
                  THEN "failed"
                  ELSE "overview"
             ELSE AfterOverviewBranch(req)
    /\ UNCHANGED <<band, blocks, req, pData, loc, ret, obs>>

NextOverviewIO ==
    \/ IRasterIOOverviewTest
    \/ BestOverviewScan
    \/ BestOverviewReturn
    \/ IRasterIOOverviewReissue

SpecOverviewIO == InitOverviewIO /\ [][NextOverviewIO]_vars

\* ======================================================= whole-raster copy
\* GDALDatasetCopyWholeRaster and GDALRasterBandCopyWholeRaster.  In the
\* specifications of these functions band holds the two datasets (src with the
\* set of its pixels <<b, x, y>> that hold no data, dst), blocks the pixels of
\* the destination, req the options and the swath size, pData the swath buffer,
\* loc the loop variables, obs the calls made on the collaborators.
\*
\* The swath size is the result of GDALCopyWholeRasterGetSwathSize, which
\* depends on block sizes, on the cache size and on GDAL_SWATH_SIZE: any width up
\* to the raster width and any height from 1 are explored.
DATASET_COPY == "GDALDatasetCopyWholeRaster"
BAND_COPY == "GDALRasterBandCopyWholeRaster"

OldWord(p) == <<"old", p[1], p[2], p[3]>>
NoDataWord == <<"nodata", 0, 0, 0>>

\* What RasterIO(GF_Read) delivers for pixel p of the source.
SrcPixel(p) == IF p \in band.src.holes THEN NoDataWord ELSE <<"src", p[1], p[2], p[3]>>

CopyPixels(bands, iX, iY, nCols, nLines) ==
    {<<b, x, y>> : b \in bands, x \in iX .. iX + nCols - 1, y \in iY .. iY + nLines - 1}

\* The sets of source pixels without data explored: none, or the top left
\* c x l pixels of one band.
HoleSets(s) ==
    {{}} \cup
    {CopyPixels({b}, 0, 0, c, l) :
        b \in 1 .. s.nBands, c \in 1 .. s.nRasterXSize, l \in 1 .. s.nRasterYSize}

\* The datasets explored: equal in size and band count, or different in one of
\* the three.
DatasetSizes ==
    {[nRasterXSize |-> x, nRasterYSize |-> y, nBands |-> b] :
        x \in 1 .. MaxCopyXSize, y \in 1 .. MaxCopyYSize, b \in 0 .. MaxCopyBands}

OneDifference(a, b) ==
    Cardinality({f \in {"nRasterXSize", "nRasterYSize", "nBands"} : a[f] # b[f]}) <= 1

NoCopyObs == [events |-> <<>>, failed |-> FALSE, nEventsAtFailure |-> 0,
              run |-> 1, first |-> <<>>]

NoCopyLoc == [iBand |-> 0, iY |-> 0, iX |-> 0, eErr |-> CE_None, nBlocksDone |-> 0]

InitCopy ==
    /\ \E eApi \in {DATASET_COPY, BAND_COPY}, s \in DatasetSizes, d \in DatasetSizes :
          /\ OneDifference(s, d)
          /\ eApi = BAND_COPY => (s.nBands = 1 /\ d.nBands = 1)
          /\ \E h \in (IF s = d
                        THEN HoleSets(s)
                        ELSE {{}}) :
                band = [src |-> [nRasterXSize |-> s.nRasterXSize,
                                 nRasterYSize |-> s.nRasterYSize,
                                 nBands |-> s.nBands, holes |-> h],
                        dst |-> d]
          /\ \E bInterleave \in (IF eApi = DATASET_COPY THEN BOOLEAN ELSE {FALSE}),
                bCheckHoles \in BOOLEAN,
                nSwathCols \in 1 .. d.nRasterXSize, nSwathLines \in 1 .. MaxCopyYSize :
                req = [eApi |-> eApi, bInterleave |-> bInterleave,
                       bCheckHoles |-> bCheckHoles,
                       nSwathCols |-> nSwathCols, nSwathLines |-> nSwathLines]
          /\ blocks = [q \in CopyPixels(1 .. d.nBands, 0, 0,
                                         d.nRasterXSize, d.nRasterYSize) |-> OldWord(q)]
    /\ pData = <<>>
    /\ pc = "copycall"
    /\ loc = NoCopyLoc
    /\ ret = "none"
    /\ obs = NoCopyObs

\* The test of GDALDatasetCopyWholeRaster without the band counts.
CopySizesMatchNoBands ==
    /\ band.src.nRasterXSize = band.dst.nRasterXSize
    /\ band.src.nRasterYSize = band.dst.nRasterYSize

\* The sizes and band counts of the two datasets match.
CopySizesMatch ==
    /\ band.src.nRasterXSize = band.dst.nRasterXSize
    /\ band.src.nRasterYSize = band.dst.nRasterYSize
    /\ band.src.nBands = band.dst.nBands

\* The sizes of the two bands match.
BandCopySizesMatch ==
    /\ band.dst.nRasterXSize = band.src.nRasterXSize
    /\ band.dst.nRasterYSize = band.src.nRasterYSize

\* A failure is recorded with the number of calls made so far.
CopyFailed(o, events) == [o EXCEPT !.events = events, !.failed = TRUE,
                                   !.nEventsAtFailure = Len(events)]

\* Entry of either function: the size test, the preliminary progress report
\* and, for a dataset, the test for no band.
CopyEnter ==
    /\ pc = "copycall"
    /\ UNCHANGED <<band, blocks, req, pData, loc>>
    /\ IF ~(IF req.eApi = DATASET_COPY THEN CopySizesMatch ELSE BandCopySizesMatch)
       THEN /\ pc' = "copydone" /\ ret' = CE_Failure
            /\ obs' = obs
       ELSE \E bContinue \in BOOLEAN :
               LET events == Append(obs.events, <<"progress", 0, 1>>)
               IN IF ~bContinue
                  THEN /\ pc' = "copydone" /\ ret' = CE_Failure
                       /\ obs' = CopyFailed(obs, events)
                  ELSE IF req.eApi = DATASET_COPY /\ band.dst.nBands = 0
                  THEN /\ pc' = "copydone" /\ ret' = CE_None
                       /\ obs' = [obs EXCEPT !.events = events]
                  ELSE /\ pc' = "copyloop" /\ ret' = "running"
                       /\ obs' = [obs EXCEPT !.events = events]

DivRoundUp(a, b) == (a + b - 1) \div b

\* nTotalBlocks
CopyTotalBlocks ==
    (IF req.bInterleave THEN 1 ELSE band.dst.nBands)
    * DivRoundUp(band.dst.nRasterYSize, req.nSwathLines)
    * DivRoundUp(band.dst.nRasterXSize, req.nSwathCols)

\* The loops go on whatever eErr is.
CopyLoopContinuesAnyway(l) ==
    /\ l.iBand < (IF req.bInterleave \/ req.eApi = BAND_COPY THEN 1 ELSE band.dst.nBands)
    /\ l.iY < band.dst.nRasterYSize
    /\ l.iX < band.dst.nRasterXSize

\* The conditions of the loops over the bands, the swath rows and the swath
\* columns (a single pass over the bands when interleaved or for one band).
CopyLoopContinues(l) ==
    /\ l.iBand < (IF req.bInterleave \/ req.eApi = BAND_COPY THEN 1 ELSE band.dst.nBands)
    /\ l.iY < band.dst.nRasterYSize
    /\ l.iX < band.dst.nRasterXSize
    /\ l.eErr = CE_None

\* Loops that step by one column and one line.
CopyAdvanceByOne(l, eErr) ==
    LET iX == l.iX + 1
        bRowDone == iX >= band.dst.nRasterXSize
        iY == IF bRowDone THEN l.iY + 1 ELSE l.iY
        bBandDone == bRowDone /\ iY >= band.dst.nRasterYSize
    IN [iBand |-> IF bBandDone THEN l.iBand + 1 ELSE l.iBand,
        iY |-> IF bBandDone THEN 0 ELSE iY,
        iX |-> IF bRowDone THEN 0 ELSE iX,
        eErr |-> eErr,
        nBlocksDone |-> l.nBlocksDone + 1]

\* The loop variables after the tile at <<iBand, iY, iX>>: the increments of
\* the three loops.
CopyAdvance(l, eErr) ==
    LET iX == l.iX + req.nSwathCols
        bRowDone == iX >= band.dst.nRasterXSize
        iY == IF bRowDone THEN l.iY + req.nSwathLines ELSE l.iY
        bBandDone == bRowDone /\ iY >= band.dst.nRasterYSize
    IN [iBand |-> IF bBandDone THEN l.iBand + 1 ELSE l.iBand,
        iY |-> IF bBandDone THEN 0 ELSE iY,
        iX |-> IF bRowDone THEN 0 ELSE iX,
        eErr |-> eErr,
        nBlocksDone |-> l.nBlocksDone + 1]

\* GetDataCoverageStatus(...) & GDAL_DATA_COVERAGE_STATUS_DATA for band b.
HasData(b, iX, iY, nCols, nLines) ==
    \E q \in CopyPixels({b}, iX, iY, nCols, nLines) : q \notin band.src.holes

\* nStatus & GDAL_DATA_COVERAGE_STATUS_DATA in the band-oriented loops.
BandTileHasData(b, iX, iY, nCols, nLines) ==
    IF req.bCheckHoles THEN HasData(b, iX, iY, nCols, nLines) ELSE TRUE

\* nStatus & GDAL_DATA_COVERAGE_STATUS_DATA in the pixel-interleaved loop:
\* nStatus starts as GDAL_DATA_COVERAGE_STATUS_DATA and the statuses of the
\* bands are or-ed into it.
InterleavedTileHasData(iX, iY, nCols, nLines) ==
    LET bInitial == TRUE
    IN IF req.bCheckHoles
       THEN bInitial \/ \E b \in 1 .. band.dst.nBands : HasData(b, iX, iY, nCols, nLines)
       ELSE bInitial

\* One pass of the innermost loop: the hole test, the read of the tile into
\* the swath buffer, its write to the destination and the progress report.
\* eRead is the outcome of the read ("stop": the progress callback it was given
\* returned FALSE), bWriteOk that of the write, bWrote whether a failed write
\* had stored the tile, bContinue the answer of the progress callback.
CopyTile ==
    /\ pc = "copyloop"
    /\ CopyLoopContinues(loc)
    /\ UNCHANGED <<band, req, pc, ret>>
    /\ LET nThisLines == IF loc.iY + req.nSwathLines > band.dst.nRasterYSize
                         THEN band.dst.nRasterYSize - loc.iY ELSE req.nSwathLines
           nThisCols == IF loc.iX + req.nSwathCols > band.dst.nRasterXSize
                        THEN band.dst.nRasterXSize - loc.iX ELSE req.nSwathCols
           bands == IF req.bInterleave THEN 1 .. band.dst.nBands ELSE {loc.iBand + 1}
           tile == <<bands, loc.iX, loc.iY, nThisCols, nThisLines>>
           pixels == CopyPixels(bands, loc.iX, loc.iY, nThisCols, nThisLines)
           bData == IF req.bInterleave
                    THEN InterleavedTileHasData(loc.iX, loc.iY, nThisCols, nThisLines)
                    ELSE BandTileHasData(loc.iBand + 1, loc.iX, loc.iY,
                                         nThisCols, nThisLines)
           fraction == IF req.eApi = DATASET_COPY
                       THEN <<"progress", loc.nBlocksDone + 1, CopyTotalBlocks>>
                       ELSE <<"progress", loc.iY + nThisLines, band.dst.nRasterYSize>>
       IN \E eRead \in (IF ~bData THEN {"skip"}
                         ELSE IF req.eApi = DATASET_COPY THEN {"ok", "fail", "stop"}
                         ELSE {"ok", "fail"}),
             bWriteOk \in BOOLEAN, bWrote \in BOOLEAN, bContinue \in BOOLEAN :
             LET evRead == IF eRead = "skip" THEN obs.events
                           ELSE IF eRead = "stop"
                           THEN obs.events \o <<<<"read", tile>>,
                                                 <<"progress", 2 * loc.nBlocksDone + 1,
                                                   2 * CopyTotalBlocks>>>>
                           ELSE Append(obs.events, <<"read", tile>>)
                 buf == [q \in pixels |-> SrcPixel(q)]
                 written == [q \in DOMAIN blocks |->
                                IF q \in pixels THEN buf[q] ELSE blocks[q]]
             IN IF eRead \in {"fail", "stop"}
                THEN /\ bWriteOk /\ bWrote /\ bContinue
                     /\ obs' = CopyFailed(obs, evRead)
                     /\ loc' = CopyAdvance(loc, CE_Failure)
                     /\ UNCHANGED <<blocks, pData>>
                ELSE IF eRead = "skip"
                THEN /\ bWriteOk /\ bWrote
                     /\ UNCHANGED <<blocks, pData>>
                     /\ IF bContinue
                        THEN /\ obs' = [obs EXCEPT !.events = Append(evRead, fraction)]
                             /\ loc' = CopyAdvance(loc, CE_None)
                        ELSE /\ obs' = CopyFailed(obs, Append(evRead, fraction))
                             /\ loc' = CopyAdvance(loc, CE_Failure)
                ELSE /\ pData' = buf
                     /\ IF ~bWriteOk
                        THEN /\ bContinue
                             /\ blocks' = IF bWrote THEN written ELSE blocks
                             /\ obs' = CopyFailed(obs, Append(evRead, <<"write", tile>>))
                             /\ loc' = CopyAdvance(loc, CE_Failure)
                        ELSE /\ bWrote
                             /\ blocks' = written
                             /\ LET ev == evRead \o <<<<"write", tile>>, fraction>>
                                IN IF bContinue
                                   THEN /\ obs' = [obs EXCEPT !.events = ev]
                                        /\ loc' = CopyAdvance(loc, CE_None)
                                   ELSE /\ obs' = CopyFailed(obs, ev)
                                        /\ loc' = CopyAdvance(loc, CE_Failure)

\* The loops are over: the swath buffer is freed and eErr returned.
CopyReturn ==
    /\ pc = "copyloop"
    /\ ~CopyLoopContinues(loc)
    /\ pc' = "copydone"
    /\ ret' = loc.eErr
    /\ pData' = <<>>
    /\ UNCHANGED <<band, blocks, req, loc, obs>>

\* After a successful copy the caller restores the destination and copies the
\* same source again in the other mode, for which the swath is computed anew.
CopyInOtherMode ==
    /\ pc = "copydone" /\ ret = CE_None
    /\ req.eApi = DATASET_COPY
    /\ obs.run = 1
    /\ \E nSwathCols \in 1 .. band.dst.nRasterXSize, nSwathLines \in 1 .. MaxCopyYSize :
          req' = [req EXCEPT !.bInterleave = ~req.bInterleave,
                             !.nSwathCols = nSwathCols, !.nSwathLines = nSwathLines]
    /\ obs' = [NoCopyObs EXCEPT !.run = 2, !.first = blocks]
    /\ blocks' = [q \in DOMAIN blocks |-> OldWord(q)]
    /\ loc' = NoCopyLoc
    /\ pc' = "copycall"
    /\ ret' = "none"
    /\ UNCHANGED <<band, pData>>

NextCopy ==
    \/ CopyEnter
    \/ CopyTile
    \/ CopyReturn

SpecCopy == InitCopy /\ [][NextCopy]_vars

NextCopyModes ==
    \/ CopyEnter
    \/ CopyTile
    \/ CopyReturn
    \/ CopyInOtherMode

SpecCopyModes == InitCopy /\ [][NextCopyModes]_vars

\* Copies without the test of the holes, of rasters of up to MaxTileRasterSize
\* pixels a side with swaths of any width up to that of the raster and of any
\* height up to one line more than the raster.
InitCopyTiles ==
    /\ \E eApi \in {DATASET_COPY, BAND_COPY},
          x \in 1 .. MaxTileRasterSize, y \in 1 .. MaxTileRasterSize,
          b \in 1 .. MaxCopyBands :
          /\ eApi = BAND_COPY => b = 1
          /\ band = [src |-> [nRasterXSize |-> x, nRasterYSize |-> y,
                              nBands |-> b, holes |-> {}],
                     dst |-> [nRasterXSize |-> x, nRasterYSize |-> y, nBands |-> b]]
          /\ \E bInterleave \in (IF eApi = DATASET_COPY THEN BOOLEAN ELSE {FALSE}),
                nSwathCols \in 1 .. x, nSwathLines \in 1 .. y + 1 :
                req = [eApi |-> eApi, bInterleave |-> bInterleave,
                       bCheckHoles |-> FALSE,
                       nSwathCols |-> nSwathCols, nSwathLines |-> nSwathLines]
          /\ blocks = [q \in CopyPixels(1 .. b, 0, 0, x, y) |-> OldWord(q)]
    /\ pData = <<>>
    /\ pc = "copycall"
    /\ loc = NoCopyLoc
    /\ ret = "none"
    /\ obs = NoCopyObs

\* The loops of a copy wait for nothing: a step that can be made is made.
SpecCopyTiles == InitCopyTiles /\ [][NextCopy]_vars /\ WF_vars(NextCopy)

\* ============================================================ GDALCopyWords
\* GDALCopyWords(pSrcData, eSrcType, nSrcPixelStride, pDstData, eDstType,
\* nDstPixelStride, nWordCount) and the copies it selects.  Here
\*   band   is the build: x86_64 with the SSE2 kernels and without
\*          HAVE_SSSE3_AT_COMPILE_TIME, a CPU that requires aligned access
\*          (CPL_CPU_REQUIRES_ALIGNED_ACCESS), or neither;
\*   req    holds the arguments of the call;
\*   blocks is the memory at pSrcData and pData the memory at pDstData, both
\*          functions from byte offsets to bytes;
\*   obs    names the copy that served the call.
\* An integer word is stored as its little-endian two's complement bytes, the
\* byte of value v being <<"byte", v>>.  A floating point value is a number of
\* halves h (the value h/2), and byte k of its encoding is <<"f32", h, k>> or
\* <<"f64", h, k>>.  The source buffer
\* holds a word at every multiple of the source stride; its other bytes and
\* the bytes of the destination before the call are named by their offset.
\* The two pointers are aligned, the buffers do not overlap and the words of
\* the destination do not overlap each other.

GDT_Byte == "GDT_Byte"
GDT_UInt16 == "GDT_UInt16"
GDT_Int16 == "GDT_Int16"
GDT_UInt32 == "GDT_UInt32"
GDT_Int32 == "GDT_Int32"
GDT_Float32 == "GDT_Float32"
GDT_Float64 == "GDT_Float64"
GDT_CInt16 == "GDT_CInt16"
GDT_CInt32 == "GDT_CInt32"
GDT_CFloat32 == "GDT_CFloat32"
GDT_CFloat64 == "GDT_CFloat64"

GDALDataTypes == {GDT_Byte, GDT_UInt16, GDT_Int16, GDT_UInt32, GDT_Int32,
                  GDT_Float32, GDT_Float64,
                  GDT_CInt16, GDT_CInt32, GDT_CFloat32, GDT_CFloat64}

\* bInComplex of GDALCopyWordsFromT.
GDALDataTypeIsComplex(t) == t \in {GDT_CInt16, GDT_CInt32, GDT_CFloat32, GDT_CFloat64}

\* The template argument T that GDALCopyWords gives GDALCopyWordsFromT, as
\* the type of one component.
ComponentType(t) ==
    CASE t = GDT_CInt16 -> GDT_Int16
      [] t = GDT_CInt32 -> GDT_Int32
      [] t = GDT_CFloat32 -> GDT_Float32
      [] t = GDT_CFloat64 -> GDT_Float64
      [] OTHER -> t

IsFloating(t) == t \in {GDT_Float32, GDT_Float64}

\* sizeof(T)
SizeOf(t) ==
    CASE t = GDT_Byte -> 1
      [] t \in {GDT_UInt16, GDT_Int16} -> 2
      [] t \in {GDT_UInt32, GDT_Int32, GDT_Float32} -> 4
      [] t = GDT_Float64 -> 8

GDALGetDataTypeSizeBytes(t) ==
    IF GDALDataTypeIsComplex(t) THEN 2 * SizeOf(ComponentType(t)) ELSE SizeOf(t)

\* ------------------------------------------------------------ encodings
\* The bytes of the integer or floating point value v stored as type t.  The
\* 32 bit values explored lie in -2^24 .. 2^24, which a float holds exactly.
ByteOf(v) == <<"byte", v>>

EncodeWord(t, v) ==
    CASE t = GDT_Byte -> <<ByteOf(v)>>
      [] t \in {GDT_UInt16, GDT_Int16} ->
            LET u == v % 65536 IN <<ByteOf(u % 256), ByteOf(u \div 256)>>
      [] t \in {GDT_UInt32, GDT_Int32} ->
            IF v >= 0
            THEN <<ByteOf(v % 256), ByteOf((v \div 256) % 256),
                   ByteOf((v \div 65536) % 256), ByteOf(v \div 16777216)>>
            ELSE LET m == -v - 1
                 IN <<ByteOf(255 - (m % 256)), ByteOf(255 - ((m \div 256) % 256)),
                      ByteOf(255 - ((m \div 65536) % 256)),
                      ByteOf(255 - (m \div 16777216))>>
      [] t = GDT_Float32 -> [k \in 1 .. 4 |-> <<"f32", v, k>>]
      [] t = GDT_Float64 -> [k \in 1 .. 8 |-> <<"f64", v, k>>]

\* The value that the bytes b hold when read as type t.
DecodeWord(t, b) ==
    CASE t = GDT_Byte -> b[1][2]
      [] t = GDT_UInt16 -> b[1][2] + 256 * b[2][2]
      [] t = GDT_Int16 ->
            LET u == b[1][2] + 256 * b[2][2] IN IF u >= 32768 THEN u - 65536 ELSE u
      [] t \in {GDT_UInt32, GDT_Int32} ->
            IF b[4][2] < 128
            THEN b[1][2] + 256 * b[2][2] + 65536 * b[3][2] + 16777216 * b[4][2]
            ELSE -1 - ((255 - b[1][2]) + 256 * (255 - b[2][2]) + 65536 * (255 - b[3][2])
                       + 16777216 * (255 - b[4][2]))
      [] t \in {GDT_Float32, GDT_Float64} -> b[1][2]

\* n bytes of memory m from offset off.
BytesAt(m, off, n) == [k \in 1 .. n |-> m[off + k - 1]]

\* *reinterpret_cast<const T*>(p + off) for the component type t.
LoadWord(m, off, t) == DecodeWord(t, BytesAt(m, off, SizeOf(t)))

\* ------------------------------------------------------ the word converter
\* GDALCopyWord(tValueIn, tValueOut) for one component: a value of an
\* identical type is unchanged, an integer result is saturated to the range of
\* tout, a floating point value becomes an integer by truncation.  No value
\* explored reaches the upper limit of GUInt32, which stands here as the
\* largest integer of the model checker.
GDALCopyWord(v, tin, tout) ==
    LET TypeMin == CASE tout \in {GDT_Byte, GDT_UInt16, GDT_UInt32} -> 0
                     [] tout = GDT_Int16 -> -32768
                     [] tout = GDT_Int32 -> -2147483647 - 1
        TypeMax == CASE tout = GDT_Byte -> 255
                     [] tout = GDT_UInt16 -> 65535
                     [] tout = GDT_Int16 -> 32767
                     [] tout \in {GDT_UInt32, GDT_Int32} -> 2147483647
        Truncate(h) == IF h >= 0 THEN h \div 2 ELSE -((-h) \div 2)
    IN IF tin = tout THEN v
       ELSE IF IsFloating(tout) THEN (IF IsFloating(tin) THEN v ELSE 2 * v)
       ELSE Max(TypeMin, Min(TypeMax, IF IsFloating(tin) THEN Truncate(v) ELSE v))

\* GDALCopy8Words(pInValues, pOutPixels), word i of the eight.
GDALCopy8Words(v, tin, tout) == GDALCopyWord(v, tin, tout)

\* ------------------------------------------------------------ the buffers
X86_64 == "x86_64"
ALIGNED_ACCESS == "CPL_CPU_REQUIRES_ALIGNED_ACCESS"
OTHER_CPU == "other"

\* The value of component k of the source buffer, for each type: small and
\* large, negative and positive, whole and fractional values.
SrcScalar(t, k) ==
    CASE t = GDT_Byte -> (37 * k + 3) % 256
      [] t = GDT_UInt16 -> (4099 * k + 250) % 65536
      [] t = GDT_Int16 ->
            CASE k = 1 -> 300 [] k = 2 -> -300 [] k = 3 -> 3 [] k = 4 -> 5 [] k = 10 -> 7
              [] OTHER -> ((4099 * k + 250) % 65536) - 32768
      [] t = GDT_UInt32 -> 600011 * k + 200
      [] t = GDT_Int32 -> 600011 * k + 200 - 8000000
      [] t \in {GDT_Float32, GDT_Float64} ->
            IF k % 2 = 0 THEN 2001 * k + 5 - 10000 ELSE 200001 * k - 1000000

\* The bytes of word n of the source buffer.
SrcWordBytes(t, n) ==
    LET ct == ComponentType(t)
    IN IF GDALDataTypeIsComplex(t)
       THEN EncodeWord(ct, SrcScalar(ct, n)) \o EncodeWord(ct, SrcScalar(ct, n + 7))
       ELSE EncodeWord(ct, SrcScalar(ct, n))

\* The number of bytes from the first byte of the first word to the last byte
\* of the last of nWordCount words of nSize bytes that lie nStride bytes apart.
BufferExtent(nStride, nSize, nWordCount) == (nWordCount - 1) * nStride + nSize

\* The shapes of the two strides explored, <<fs, fd, es, ed>> for a source
\* stride of fs words and es bytes and a destination stride of fd words and ed
\* bytes: one of the buffers packed and the other with a stride of up to
\* MaxStrideFactor words (0 for the source: one word to replicate), both
\* not packed, or one with a stride that is no multiple of the word size.
StrideShapes ==
    {<<fs, 1, 0, 0>> : fs \in 0 .. MaxStrideFactor}
    \cup {<<1, fd, 0, 0>> : fd \in 2 .. MaxStrideFactor}
    \cup {<<0, 2, 0, 0>>, <<0, 1, 0, 1>>}
    \cup {<<2, 3, 0, 0>>, <<1, 1, 1, 0>>, <<1, 1, 0, 1>>}

\* The counts explored: 1, 2, 5 and those that are a multiple of the 8 words of
\* a vector loop, one less or one more.
WordCounts == {n \in 1 .. MaxWordCount : n \in {1, 2, 5} \/ n % 8 \in {7, 0, 1}}

InitCopyWords ==
    /\ \E build \in {X86_64, ALIGNED_ACCESS, OTHER_CPU} : band = [build |-> build]
    /\ \E eSrcType \in GDALDataTypes, eDstType \in GDALDataTypes,
          shape \in StrideShapes, nWordCount \in WordCounts :
          LET nSrcSize == GDALGetDataTypeSizeBytes(eSrcType)
              nDstSize == GDALGetDataTypeSizeBytes(eDstType)
              nSrcPixelStride == shape[1] * nSrcSize + shape[3]
              nDstPixelStride == shape[2] * nDstSize + shape[4]
              words == [n \in 0 .. nWordCount - 1 |-> SrcWordBytes(eSrcType, n)]
          IN /\ BufferExtent(nSrcPixelStride, nSrcSize, nWordCount) <= MaxBufferBytes
             /\ BufferExtent(nDstPixelStride, nDstSize, nWordCount) <= MaxBufferBytes
             /\ req = [eSrcType |-> eSrcType, nSrcPixelStride |-> nSrcPixelStride,
                       eDstType |-> eDstType, nDstPixelStride |-> nDstPixelStride,
                       nWordCount |-> nWordCount]
             /\ blocks = [a \in 0 .. BufferExtent(nSrcPixelStride, nSrcSize, nWordCount) - 1 |->
                            IF nSrcPixelStride = 0
                            THEN words[0][a + 1]
                            ELSE IF a % nSrcPixelStride < nSrcSize
                            THEN words[a \div nSrcPixelStride][(a % nSrcPixelStride) + 1]
                            ELSE <<"pad", a>>]
             /\ pData = [a \in 0 .. BufferExtent(nDstPixelStride, nDstSize, nWordCount) - 1 |->
                            <<"old", a>>]
    /\ pc = "copywords"
    /\ loc = <<>>
    /\ ret = "none"
    /\ obs = [path |-> "none"]

\* ----------------------------------------------------- the per-word loops
\* Each copy is given by the store it makes for word n of the call: the pair
\* <<offset from pDstData, bytes stored>>.  The stores of a copy are made in
\* the order of n.

\* The loop of GDALCopyWordsGenericT with a plain assignment of the value in
\* place of GDALCopyWord.
GDALCopyWordsGenericT_Assigned(n) ==
    LET ci == ComponentType(req.eSrcType)
        co == ComponentType(req.eDstType)
    IN <<n * req.nDstPixelStride,
         EncodeWord(co, LoadWord(blocks, n * req.nSrcPixelStride, ci))>>

\* GDALCopyWordsGenericT<Tin, Tout>
GDALCopyWordsGenericT(n) ==
    LET ci == ComponentType(req.eSrcType)
        co == ComponentType(req.eDstType)
    IN <<n * req.nDstPixelStride,
         EncodeWord(co, GDALCopyWord(LoadWord(blocks, n * req.nSrcPixelStride, ci), ci, co))>>

\* GDALCopyWordsComplexT<Tin, Tout>
GDALCopyWordsComplexT(n) ==
    LET ci == ComponentType(req.eSrcType)
        co == ComponentType(req.eDstType)
        off == n * req.nSrcPixelStride
    IN <<n * req.nDstPixelStride,
         EncodeWord(co, GDALCopyWord(LoadWord(blocks, off, ci), ci, co))
         \o EncodeWord(co, GDALCopyWord(LoadWord(blocks, off + SizeOf(ci), ci), ci, co))>>

\* The loop of GDALCopyWordsComplexOutT with the value stored in pPixelOut[1]
\* too.
GDALCopyWordsComplexOutT_Both(n) ==
    LET ci == ComponentType(req.eSrcType)
        co == ComponentType(req.eDstType)
        re == EncodeWord(co, GDALCopyWord(LoadWord(blocks, n * req.nSrcPixelStride, ci), ci, co))
    IN <<n * req.nDstPixelStride, re \o re>>

\* GDALCopyWordsComplexOutT<Tin, Tout>
GDALCopyWordsComplexOutT(n) ==
    LET ci == ComponentType(req.eSrcType)
        co == ComponentType(req.eDstType)
    IN <<n * req.nDstPixelStride,
         EncodeWord(co, GDALCopyWord(LoadWord(blocks, n * req.nSrcPixelStride, ci), ci, co))
         \o EncodeWord(co, 0)>>

\* The loop GDALCopyWordsFromT selects when no specialisation of
\* GDALCopyWordsT applies.
GenericLoop(n) ==
    IF GDALDataTypeIsComplex(req.eDstType)
    THEN IF GDALDataTypeIsComplex(req.eSrcType)
         THEN GDALCopyWordsComplexT(n)
         ELSE GDALCopyWordsComplexOutT(n)
    ELSE GDALCopyWordsGenericT(n)

\* ---------------------------------------------------------------- kernels
\* The strides are those of packed buffers of the two component types.
PackedStrides(ci, co) ==
    req.nSrcPixelStride = SizeOf(ci) /\ req.nDstPixelStride = SizeOf(co)

\* The offset of the word of lane j within the nStores stores of 16 bytes that
\* end an iteration of a kernel's loop over nLanes words of nSize bytes.
LaneOffset(j, nLanes, nStores, nSize) ==
    LET nPerStore == nLanes \div nStores
    IN 16 * (j \div nPerStore) + nSize * (j % nPerStore)

\* The 8-at-a-time loop with nDstOffset left where it was before the loop.
GDALCopyWordsT_8atatime_OffsetKept(n) ==
    LET ci == ComponentType(req.eSrcType)
        co == ComponentType(req.eDstType)
        nVector == IF PackedStrides(ci, co) THEN 8 * (req.nWordCount \div 8) ELSE 0
        v == LoadWord(blocks, n * req.nSrcPixelStride, ci)
    IN IF n < nVector
       THEN <<8 * (n \div 8) * req.nDstPixelStride + (n % 8) * SizeOf(co),
              EncodeWord(co, GDALCopy8Words(v, ci, co))>>
       ELSE <<(n - nVector) * req.nDstPixelStride,
              EncodeWord(co, GDALCopyWord(v, ci, co))>>

\* GDALCopyWordsT_8atatime<Tin, Tout>: GDALCopy8Words on eight words at a time
\* while eight are left, when both buffers are packed; then word by word.
GDALCopyWordsT_8atatime(n) ==
    LET ci == ComponentType(req.eSrcType)
        co == ComponentType(req.eDstType)
        nVector == IF PackedStrides(ci, co) THEN 8 * (req.nWordCount \div 8) ELSE 0
        v == LoadWord(blocks, n * req.nSrcPixelStride, ci)
    IN IF n < nVector
       THEN <<8 * (n \div 8) * req.nDstPixelStride + (n % 8) * SizeOf(co),
              EncodeWord(co, GDALCopy8Words(v, ci, co))>>
       ELSE <<nVector * req.nDstPixelStride + (n - nVector) * req.nDstPixelStride,
              EncodeWord(co, GDALCopyWord(v, ci, co))>>

\* pDstData[n] = pSrcData[n] for an unsigned source no wider than Tout, and
\* _mm_cvtepi32_ps, _mm_cvtepi32_pd for a floating point Tout.
AssignWord(v, co) == IF IsFloating(co) THEN 2 * v ELSE v

\* GDALCopyWordsByteTo16Bit, GDALCopyWordsByteTo32Bit and the specialisations
\* of GDALCopyWordsT for GByte to float and to double: 16 bytes at a time
\* widened with zeroes while 16 are left, then pDstData[n] = pSrcData[n].
GDALCopyWordsFromByte(n) ==
    LET co == ComponentType(req.eDstType)
        nVector == 16 * (req.nWordCount \div 16)
        b == LoadWord(blocks, n, GDT_Byte)
    IN IF ~PackedStrides(GDT_Byte, co) THEN GDALCopyWordsGenericT(n)
       ELSE IF n >= nVector THEN <<n * SizeOf(co), EncodeWord(co, AssignWord(b, co))>>
       ELSE <<16 * (n \div 16) * SizeOf(co) + LaneOffset(n % 16, 16, SizeOf(co), SizeOf(co)),
              CASE co \in {GDT_UInt16, GDT_Int16} -> <<ByteOf(b), ByteOf(0)>>
                [] co \in {GDT_UInt32, GDT_Int32} ->
                      <<ByteOf(b), ByteOf(0), ByteOf(0), ByteOf(0)>>
                [] co \in {GDT_Float32, GDT_Float64} -> EncodeWord(co, AssignWord(b, co))>>

\* The specialisations of GDALCopyWordsT for GUInt16 to GByte, GInt16, float
\* and double: 8 words at a time while 8 are left, then word by word.  The 16
\* bit lanes of SSE2 are given as 0 .. 65535.
GDALCopyWordsFromUInt16(n) ==
    LET co == ComponentType(req.eDstType)
        nVector == 8 * (req.nWordCount \div 8)
        v == LoadWord(blocks, 2 * n, GDT_UInt16)
        nLimit == IF co = GDT_Byte THEN 255 ELSE 32767
        ToInt16(u) == IF u >= 32768 THEN u - 65536 ELSE u
        mm_add_epi16(u, c) == (u + c) % 65536
        mm_sub_epi16(u, c) == (u - c) % 65536
        mm_min_epi16(u, c) == IF ToInt16(u) < c THEN u ELSE c % 65536
        mm_packus_epi16(u) == Max(0, Min(255, ToInt16(u)))
        xmm == mm_sub_epi16(mm_min_epi16(mm_add_epi16(v, -32768), nLimit - 32768),
                            -32768)
    IN IF ~PackedStrides(GDT_UInt16, co) THEN GDALCopyWordsGenericT(n)
       ELSE IF n >= nVector
       THEN <<n * SizeOf(co),
              IF IsFloating(co) THEN EncodeWord(co, AssignWord(v, co))
              ELSE EncodeWord(co, IF v >= nLimit THEN nLimit ELSE v)>>
       ELSE CASE co = GDT_Byte -> <<n, <<ByteOf(mm_packus_epi16(xmm))>>>>
              [] co = GDT_Int16 -> <<2 * n, <<ByteOf(xmm % 256), ByteOf(xmm \div 256)>>>>
              [] co = GDT_Float32 ->
                    <<32 * (n \div 8) + LaneOffset(n % 8, 8, 2, 4),
                      EncodeWord(co, AssignWord(v, co))>>
              [] co = GDT_Float64 ->
                    <<64 * (n \div 8) + LaneOffset(n % 8, 8, 4, 8),
                      EncodeWord(co, AssignWord(v, co))>>

\* Which GDALCopyWordsT<Tin, Tout> the compiler selects.
GDALCopyWordsT(n) ==
    LET ci == ComponentType(req.eSrcType)
        co == ComponentType(req.eDstType)
    IN IF band.build = X86_64 /\ ci = GDT_Byte
          /\ co \in {GDT_UInt16, GDT_Int16, GDT_UInt32, GDT_Int32, GDT_Float32, GDT_Float64}
       THEN GDALCopyWordsFromByte(n)
       ELSE IF band.build = X86_64 /\ ci = GDT_UInt16
               /\ co \in {GDT_Byte, GDT_Int16, GDT_Float32, GDT_Float64}
       THEN GDALCopyWordsFromUInt16(n)
       ELSE IF \/ band.build = X86_64 /\ ci = GDT_Float64 /\ co = GDT_UInt16
               \/ ci = GDT_Float32 /\ co \in {GDT_Byte, GDT_Int16, GDT_UInt16}
       THEN GDALCopyWordsT_8atatime(n)
       ELSE GDALCopyWordsGenericT(n)

\* GDALCopyWordsFromT<T>
GDALCopyWordsFromT(n) ==
    IF GDALDataTypeIsComplex(req.eDstType)
    THEN IF GDALDataTypeIsComplex(req.eSrcType)
         THEN GDALCopyWordsComplexT(n)
         ELSE GDALCopyWordsComplexOutT(n)
    ELSE GDALCopyWordsT(n)

\* -------------------------------------------------------- same type copies
\* The byte offsets <<source, destination>> of element n of
\* GDALUnrolledCopyGeneric<T, srcStride, dstStride>: 16 elements per
\* iteration while nIters >= 16, then the nIters % 16 that remain.
GDALUnrolledCopyGeneric(n, nSize, srcStride, dstStride) ==
    LET nUnrolled == IF req.nWordCount >= 16 THEN 16 * (req.nWordCount \div 16) ELSE 0
        base == IF n < nUnrolled THEN 16 * (n \div 16) ELSE nUnrolled
        i == n - base
    IN <<(base * srcStride + i * srcStride) * nSize,
         (base * dstStride + i * dstStride) * nSize>>

\* GDALUnrolledCopy<GByte, 2, 1> and <GByte, 4, 1> with SSE2: while more than
\* 16 elements are left, the low byte of each 16 or 32 bit lane of 32 or 64
\* source bytes goes to 16 destination bytes; then byte by byte.
GDALUnrolledCopySSE2(n, srcStride) ==
    LET nVector == IF req.nWordCount > 16 THEN 16 * ((req.nWordCount - 1) \div 16) ELSE 0
    IN IF n < nVector
       THEN <<16 * srcStride * (n \div 16) + LaneOffset(n % 16, 16, srcStride, srcStride), n>>
       ELSE <<srcStride * nVector + srcStride * (n - nVector), n>>

\* GDALUnrolledCopy<T, srcStride, dstStride>
GDALUnrolledCopy(n, nSize, srcStride, dstStride) ==
    IF band.build = X86_64 /\ nSize = 1 /\ dstStride = 1 /\ srcStride \in {2, 4}
    THEN GDALUnrolledCopySSE2(n, srcStride)
    ELSE GDALUnrolledCopyGeneric(n, nSize, srcStride, dstStride)

\* GDALFastCopy with the destination pointer never moved.
GDALFastCopyDestKept(n, nSize) ==
    <<0, BytesAt(blocks, n * req.nSrcPixelStride, nSize)>>

\* GDALFastCopy<T>(pDest, nDestStride, pSrc, nSrcStride, nIters) for a T of
\* nSize bytes.
GDALFastCopy(n, nSize) ==
    LET nSrcStride == req.nSrcPixelStride
        nDestStride == req.nDstPixelStride
        loop == <<n * (nSrcStride \div nSize) * nSize, n * (nDestStride \div nSize) * nSize>>
        at == IF req.nWordCount = 1 THEN <<0, 0>>
              ELSE IF nDestStride = nSize
              THEN IF nSrcStride = nSize THEN <<n * nSize, n * nSize>>
                   ELSE IF nSrcStride \in {2 * nSize, 3 * nSize, 4 * nSize}
                   THEN GDALUnrolledCopy(n, nSize, nSrcStride \div nSize, 1)
                   ELSE loop
              ELSE IF nSrcStride = nSize
              THEN IF nDestStride \in {2 * nSize, 3 * nSize, 4 * nSize}
                   THEN GDALUnrolledCopy(n, nSize, 1, nDestStride \div nSize)
                   ELSE loop
              ELSE loop
    IN <<at[2], BytesAt(blocks, at[1], nSize)>>

\* memcpy(pDstData, pSrcData, nWordCount * nSrcDataTypeSize), word n of it.
PackedMemcpy(n, nSize) == <<n * nSize, BytesAt(blocks, n * nSize, nSize)>>

\* What GDALCopyWords(pSrc + off, eSrcType, 0, pDst, eDstType, 0, 1) stores at
\* pDst: the word for an identical type, the converted word otherwise.
CopyOneWord(off) ==
    IF req.eSrcType = req.eDstType
    THEN BytesAt(blocks, off, GDALGetDataTypeSizeBytes(req.eSrcType))
    ELSE LET ci == ComponentType(req.eSrcType)
             co == ComponentType(req.eDstType)
             re == EncodeWord(co, GDALCopyWord(LoadWord(blocks, off, ci), ci, co))
         IN IF ~GDALDataTypeIsComplex(req.eDstType) THEN re
            ELSE IF GDALDataTypeIsComplex(req.eSrcType)
            THEN re \o EncodeWord(co, GDALCopyWord(LoadWord(blocks, off + SizeOf(ci), ci),
                                                   ci, co))
            ELSE re \o EncodeWord(co, 0)

\* The copies of the first word start at pDstData, not one stride after it.
GDALReplicateWordFromStart(n) ==
    <<(IF n = 0 THEN 0 ELSE n - 1) * req.nDstPixelStride, CopyOneWord(0)>>

\* GDALReplicateWord: the first destination word is converted by
\* GDALCopyWords, then copied to the nWordCount - 1 words that follow.
GDALReplicateWord(n) == <<n * req.nDstPixelStride, CopyOneWord(0)>>

\* The copy of a CPU that requires aligned access, for a stride that is no
\* multiple of the word size: each word goes through memcpy, and through
\* aligned buffers when it is converted.
AlignedAccessCopy(n) == <<n * req.nDstPixelStride, CopyOneWord(n * req.nSrcPixelStride)>>

\* ------------------------------------------------------------ GDALCopyWords
\* The copy GDALCopyWords selects.
GDALCopyWordsPath ==
    LET nSrcDataTypeSize == GDALGetDataTypeSizeBytes(req.eSrcType)
        nDstDataTypeSize == GDALGetDataTypeSizeBytes(req.eDstType)
    IN IF /\ band.build = ALIGNED_ACCESS
          /\ ~(req.eSrcType = req.eDstType /\ req.nSrcPixelStride = req.nDstPixelStride)
          /\ \/ req.nSrcPixelStride % nSrcDataTypeSize # 0
             \/ req.nDstPixelStride % nDstDataTypeSize # 0
       THEN "aligned"
       ELSE IF req.nSrcPixelStride = 0 /\ req.nWordCount > 1 THEN "replicate"
       ELSE IF req.eSrcType = req.eDstType /\ req.eSrcType = GDT_Byte THEN "fastcopy"
       ELSE IF /\ req.eSrcType = req.eDstType /\ nSrcDataTypeSize = 2
               /\ req.nSrcPixelStride % 2 = 0 /\ req.nDstPixelStride % 2 = 0
       THEN "fastcopy"
       ELSE IF req.eSrcType = req.eDstType /\ req.nWordCount = 1 THEN "memcpy"
       ELSE IF /\ req.eSrcType = req.eDstType
               /\ req.nSrcPixelStride = req.nDstPixelStride
               /\ req.nSrcPixelStride = nSrcDataTypeSize
       THEN "memcpy"
       ELSE "convert"

\* Stores that run from a word to the next one.
GDALCopyWordsStoreToNextWord(n) ==
    LET st == CASE GDALCopyWordsPath = "aligned" -> AlignedAccessCopy(n)
                [] GDALCopyWordsPath = "replicate" -> GDALReplicateWord(n)
                [] GDALCopyWordsPath = "fastcopy" ->
                      GDALFastCopy(n, GDALGetDataTypeSizeBytes(req.eSrcType))
                [] GDALCopyWordsPath = "memcpy" ->
                      PackedMemcpy(n, GDALGetDataTypeSizeBytes(req.eSrcType))
                [] GDALCopyWordsPath = "convert" -> GDALCopyWordsFromT(n)
    IN <<st[1], st[2] \o [i \in 1 .. req.nDstPixelStride - Len(st[2]) |-> ByteOf(0)]>>

\* The store GDALCopyWords makes for word n.
GDALCopyWordsStore(n) ==
    CASE GDALCopyWordsPath = "aligned" -> AlignedAccessCopy(n)
      [] GDALCopyWordsPath = "replicate" -> GDALReplicateWord(n)
      [] GDALCopyWordsPath = "fastcopy" ->
            GDALFastCopy(n, GDALGetDataTypeSizeBytes(req.eSrcType))
      [] GDALCopyWordsPath = "memcpy" ->
            PackedMemcpy(n, GDALGetDataTypeSizeBytes(req.eSrcType))
      [] GDALCopyWordsPath = "convert" -> GDALCopyWordsFromT(n)

\* The memory m after the stores st[0], st[1], ... made in this order.
StoreAll(m, st) ==
    [a \in DOMAIN m |->
        LET W == {n \in DOMAIN st : st[n][1] <= a /\ a < st[n][1] + Len(st[n][2])}
        IN IF W = {} THEN m[a]
           ELSE LET n == CHOOSE k \in W : \A j \in W : j <= k
                IN st[n][2][a - st[n][1] + 1]]

\* The call.
GDALCopyWords ==
    /\ pc = "copywords"
    /\ pData' = StoreAll(pData, [n \in 0 .. req.nWordCount - 1 |-> GDALCopyWordsStore(n)])
    /\ obs' = [path |-> GDALCopyWordsPath]
    /\ pc' = "copied"
    /\ UNCHANGED <<band, blocks, req, loc, ret>>

NextCopyWords == GDALCopyWords

SpecCopyWords == InitCopyWords /\ [][NextCopyWords]_vars


\* ============================================================= GDALCopyBits
\* GDALCopyBits(pabySrcData, nSrcOffset, nSrcStep, pabyDstData, nDstOffset,
\* nDstStep, nBitCount, nStepCount).  Here req holds the arguments, blocks is
\* the memory at pabySrcData and pData the memory at pabyDstData, both
\* functions from byte offsets to bytes 0 .. 255, and obs.before is the memory
\* at pabyDstData before the call.  The two buffers do not overlap and the
\* words of the destination do not overlap each other.

\* 0x80 >> (nOffset & 7)
BitMask(nOffset) == 2 ^ (7 - (nOffset % 8))

\* pabyData[nOffset >> 3] & (0x80 >> (nOffset & 7)), as 0 or 1.
BitAt(pabyData, nOffset) == (pabyData[nOffset \div 8] \div BitMask(nOffset)) % 2

\* The body of the inner loop with the else branch left out.
GDALCopyBitsStoreSetOnly(pabyDstData, nSrcOffset, nDstOffset) ==
    IF BitAt(blocks, nSrcOffset) = 1 /\ BitAt(pabyDstData, nDstOffset) = 0
    THEN [pabyDstData EXCEPT ![nDstOffset \div 8] = @ + BitMask(nDstOffset)]
    ELSE pabyDstData

\* The body of the inner loop: |= of the mask when the source bit is set,
\* &= ~ of the mask when it is not.
GDALCopyBitsStore(pabyDstData, nSrcOffset, nDstOffset) ==
    IF BitAt(blocks, nSrcOffset) = 1
    THEN IF BitAt(pabyDstData, nDstOffset) = 1 THEN pabyDstData
         ELSE [pabyDstData EXCEPT ![nDstOffset \div 8] = @ + BitMask(nDstOffset)]
    ELSE IF BitAt(pabyDstData, nDstOffset) = 0 THEN pabyDstData
         ELSE [pabyDstData EXCEPT ![nDstOffset \div 8] = @ - BitMask(nDstOffset)]

\* The two loops from (iStep, iBit) on, with the offsets at that point.
RECURSIVE GDALCopyBitsLoop(_, _, _, _, _)
GDALCopyBitsLoop(pabyDstData, iStep, iBit, nSrcOffset, nDstOffset) ==
    IF iStep >= req.nStepCount THEN pabyDstData
    ELSE IF iBit >= req.nBitCount
    THEN GDALCopyBitsLoop(pabyDstData, iStep + 1, 0,
                          nSrcOffset + (req.nSrcStep - req.nBitCount),
                          nDstOffset + (req.nDstStep - req.nBitCount))
    ELSE GDALCopyBitsLoop(GDALCopyBitsStore(pabyDstData, nSrcOffset, nDstOffset),
                          iStep, iBit + 1, nSrcOffset + 1, nDstOffset + 1)

\* The bytes a buffer of the model may hold.
BitPatterns == {0, 255, 165, 60}

InitCopyBits ==
    /\ band = <<>>
    /\ \E nSrcOffset \in 0 .. MaxBitOffset, nDstOffset \in 0 .. MaxBitOffset,
          nBitCount \in 1 .. MaxBitCount, nStepCount \in 0 .. MaxStepCount,
          nSrcGap \in -1 .. MaxBitGap, nDstGap \in 0 .. MaxBitGap :
          req = [nSrcOffset |-> nSrcOffset, nSrcStep |-> nBitCount + nSrcGap,
                 nDstOffset |-> nDstOffset, nDstStep |-> nBitCount + nDstGap,
                 nBitCount |-> nBitCount, nStepCount |-> nStepCount]
    /\ \E s \in BitPatterns, d \in BitPatterns :
          LET nBytes == (MaxBitOffset + MaxStepCount * (MaxBitCount + MaxBitGap)) \div 8 + 1
          IN /\ blocks = [a \in 0 .. nBytes - 1 |-> IF a % 2 = 0 THEN s ELSE 255 - s]
             /\ pData = [a \in 0 .. nBytes - 1 |-> d]
             /\ obs = [before |-> [a \in 0 .. nBytes - 1 |-> d]]
    /\ pc = "copybits"
    /\ loc = <<>>
    /\ ret = "none"

\* The call.
GDALCopyBits ==
    /\ pc = "copybits"
    /\ pData' = GDALCopyBitsLoop(pData, 0, 0, req.nSrcOffset, req.nDstOffset)
    /\ pc' = "bitscopied"
    /\ UNCHANGED <<band, blocks, req, loc, ret, obs>>

NextCopyBits == GDALCopyBits

SpecCopyBits == InitCopyBits /\ [][NextCopyBits]_vars

\* ========================================================== GDALSwapWordsEx
\* GDALSwapWordsEx(pData, nWordSize, nWordCount, nWordSkip) and the calls of
\* GDALSwapWords it makes.  A count of words or of bytes is a pair <<a, b>>
\* that stands for a * 2^30 + b, with b far below 2^29 in absolute value, so
\* that sums, differences, small multiples and comparisons of such numbers
\* are exact.  Here req holds the arguments, loc the local variables
\* nWordCount and pabyData (as a byte offset from pData), and pData is the
\* sequence of the calls of GDALSwapWords made so far, each
\* <<byte offset of its first word, its word count, nWordSkip, reversals>>:
\* the call reverses the bytes of each of its words once when nWordSize is 2,
\* 4 or 8 and leaves them when it is 1.
BigAdd(x, y) == <<x[1] + y[1], x[2] + y[2]>>
BigSub(x, y) == <<x[1] - y[1], x[2] - y[2]>>
BigTimes(k, x) == <<k * x[1], k * x[2]>>
BigGreater(x, y) == x[1] > y[1] \/ (x[1] = y[1] /\ x[2] > y[2])
\* 1 << 30
OneChunk == <<1, 0>>

\* GDALSwapWords(pabyData, nWordSize, nWordCount, nWordSkip): the words at
\* pabyData + i * nWordSkip for i below nWordCount, through the aligned or the
\* unaligned loop.
GDALSwapWords(pabyData, nWordSize, nWordCount, nWordSkip) ==
    <<pabyData, nWordCount, nWordSkip, IF nWordSize \in {2, 4, 8} THEN 1 ELSE 0>>

\* nWordCountSmall
WordCountSmall(nWordCount) ==
    IF BigGreater(nWordCount, OneChunk) THEN OneChunk ELSE nWordCount

\* pabyData += nWordSize * nWordCountSmall
NextChunkPointerBySize(pabyData, nWordCountSmall) ==
    BigAdd(pabyData, BigTimes(req.nWordSize, nWordCountSmall))

\* pabyData += static_cast<size_t>(nWordSkip) * nWordCountSmall
NextChunkPointer(pabyData, nWordCountSmall) ==
    BigAdd(pabyData, BigTimes(req.nWordSkip, nWordCountSmall))

InitSwapWords ==
    /\ \E aligned \in BOOLEAN : band = [aligned |-> aligned]
    /\ \E nWordSize \in {1, 2, 4, 8}, a \in 0 .. MaxChunks,
          b \in -MaxChunkRest .. MaxChunkRest :
       \E nGap \in {0, 1, nWordSize} :
          /\ a = 0 => b >= 0
          /\ req = [nWordSize |-> nWordSize, nWordCount |-> <<a, b>>,
                    nWordSkip |-> nWordSize + nGap]
          /\ loc = [nWordCount |-> <<a, b>>, pabyData |-> <<0, 0>>]
    /\ blocks = <<>>
    /\ pData = <<>>
    /\ pc = "swapwords"
    /\ ret = "none"
    /\ obs = <<>>

\* One pass of the while loop.
SwapWordsExChunk ==
    /\ pc = "swapwords"
    /\ loc.nWordCount # <<0, 0>>
    /\ LET nWordCountSmall == WordCountSmall(loc.nWordCount)
       IN /\ pData' = Append(pData, GDALSwapWords(loc.pabyData, req.nWordSize,
                                                  nWordCountSmall, req.nWordSkip))
          /\ loc' = [nWordCount |-> BigSub(loc.nWordCount, nWordCountSmall),
                     pabyData |-> NextChunkPointer(loc.pabyData, nWordCountSmall)]
    /\ UNCHANGED <<band, blocks, req, pc, ret, obs>>

\* The while loop ends.
SwapWordsExReturn ==
    /\ pc = "swapwords"
    /\ loc.nWordCount = <<0, 0>>
    /\ pc' = "swapped"
    /\ UNCHANGED <<band, blocks, req, pData, loc, ret, obs>>

NextSwapWords == SwapWordsExChunk \/ SwapWordsExReturn

\* GDALSwapWordsEx runs to its end once called.
SpecSwapWords == InitSwapWords /\ [][NextSwapWords]_vars /\ WF_vars(NextSwapWords)

\* ================================================== chunks of RasterIOResampled
\* The loop of GDALRasterBand::RasterIOResampled (the same loop stands in
\* GDALDataset::RasterIOResampled) that sizes the chunk of the buffer handled
\* at a time.  band holds the sizes of the raster and the width of its
\* blocks, req the window and the buffer, loc the locals of the loop, obs the
\* number of iterations made.

\* The largest int.
INT_MAX == 2147483647

\* The pixels of the source a chunk may take: 1024 * 1024.
MaxFullResChunkPixels == 1024 * 1024

\* The windows and the buffers explored.
ChunkWindowSizes ==
    {1, 2, MaxChunkWindowSize \div 40, MaxChunkWindowSize \div 25, MaxChunkWindowSize,
     INT_MAX}
ChunkBufSizes == {1, 2, 3, MaxChunkBufSize \div 2 + 1, MaxChunkBufSize}

\* static_cast<int>(nDstBlockSize * dfRatioDstToSrc) for dfRatioDstToSrc =
\* dfSize / nBufSize, a double: where the quotient dfSize / nBufSize is not
\* exact and the product is a whole number in exact arithmetic, the product
\* of the doubles may fall short of it and be truncated to the number below.
ScaledToSrc(nDstBlockSize, dfSize, nBufSize) ==
    LET q == (nDstBlockSize * dfSize) \div nBufSize
    IN IF (nDstBlockSize * dfSize) % nBufSize = 0 /\ dfSize % nBufSize # 0
       THEN {q - 1, q}
       ELSE {q}

\* 3 + n, then the cut to the size of the raster.  Beyond INT_MAX the sum of
\* two int is undefined: the build either wraps it, and a negative chunk is
\* not cut, or compares the sum it never stored, and cuts it.
FullResChunk(n, nRasterSize) ==
    IF n > INT_MAX - 3
    THEN {(n - INT_MAX) + ((3 - INT_MAX) - 2), nRasterSize}
    ELSE {IF 3 + n > nRasterSize THEN nRasterSize ELSE 3 + n}

\* static_cast<GIntBig>(x) * y <= m, for m > 0
ProductAtMost(x, y, m) ==
    IF x = 0 \/ y = 0 THEN TRUE
    ELSE IF (x < 0) # (y < 0) THEN TRUE
    ELSE IF x < 0 THEN (0 - x) - 1 <= (m \div (0 - y)) - 1
    ELSE x <= m \div y

\* The test that ends the loop.
ChunkFits(l) ==
    \/ l.nDstBlockXSize = 1 /\ l.nDstBlockYSize = 1
    \/ ProductAtMost(l.nFullResXChunk, l.nFullResYChunk, MaxFullResChunkPixels)

\* The dimension halved when the chunk does not fit.
HalveChunkUnguarded(l, nXSize, nBlockXSize) ==
    IF l.nFullResXChunk >= nXSize /\ nXSize = nBlockXSize
    THEN [l EXCEPT !.nDstBlockYSize = @ \div 2]
    ELSE IF l.nDstBlockXSize > 1
            /\ (l.nFullResXChunk > l.nFullResYChunk \/ l.nDstBlockYSize = 1)
    THEN [l EXCEPT !.nDstBlockXSize = @ \div 2]
    ELSE [l EXCEPT !.nDstBlockYSize = @ \div 2]

HalveChunk(l, nXSize, nBlockXSize) ==
    IF l.nFullResXChunk >= nXSize /\ nXSize = nBlockXSize /\ l.nDstBlockYSize > 1
    THEN [l EXCEPT !.nDstBlockYSize = @ \div 2]
    ELSE IF l.nDstBlockXSize > 1
            /\ (l.nFullResXChunk > l.nFullResYChunk \/ l.nDstBlockYSize = 1)
    THEN [l EXCEPT !.nDstBlockXSize = @ \div 2]
    ELSE [l EXCEPT !.nDstBlockYSize = @ \div 2]

InitChunk ==
    /\ \E nXSize \in ChunkWindowSizes, nYSize \in ChunkWindowSizes,
          nBufXSize \in ChunkBufSizes, nBufYSize \in ChunkBufSizes,
          nXMargin \in {0, 5}, nYMargin \in {0, 5}, bWideBlocks \in BOOLEAN :
          /\ nXSize <= INT_MAX \div nBufXSize
          /\ nYSize <= INT_MAX \div nBufYSize
          /\ nXSize <= INT_MAX - nXMargin
          /\ nYSize <= INT_MAX - nYMargin
          /\ band = [nRasterXSize |-> nXSize + nXMargin,
                     nRasterYSize |-> nYSize + nYMargin,
                     nBlockXSize |-> IF bWideBlocks THEN nXSize + nXMargin ELSE 1]
          /\ req = [nXSize |-> nXSize, nYSize |-> nYSize,
                    nBufXSize |-> nBufXSize, nBufYSize |-> nBufYSize]
          /\ loc = [nDstBlockXSize |-> nBufXSize, nDstBlockYSize |-> nBufYSize,
                    nFullResXChunk |-> 0, nFullResYChunk |-> 0]
    /\ pc = "chunkloop"
    /\ obs = 0
    /\ ret = "none"
    /\ blocks = <<>>
    /\ pData = <<>>

\* The locals once the two chunks of an iteration are computed.
ChunkLocals ==
    {[loc EXCEPT !.nFullResXChunk = x, !.nFullResYChunk = y] :
        x \in UNION {FullResChunk(n, band.nRasterXSize) :
                        n \in ScaledToSrc(loc.nDstBlockXSize, req.nXSize, req.nBufXSize)},
        y \in UNION {FullResChunk(n, band.nRasterYSize) :
                        n \in ScaledToSrc(loc.nDstBlockYSize, req.nYSize, req.nBufYSize)}}

\* An iteration that halves a dimension of the chunk.
ChunkLoopHalve ==
    /\ pc = "chunkloop"
    /\ \E l \in ChunkLocals :
          /\ ~ChunkFits(l)
          /\ loc' = HalveChunk(l, req.nXSize, band.nBlockXSize)
    /\ obs' = obs + 1
    /\ UNCHANGED <<band, blocks, req, pData, pc, ret>>

\* The iteration that leaves the loop.
ChunkLoopBreak ==
    /\ pc = "chunkloop"
    /\ \E l \in ChunkLocals :
          /\ ChunkFits(l)
          /\ loc' = l
    /\ pc' = "chunked"
    /\ obs' = obs + 1
    /\ UNCHANGED <<band, blocks, req, pData, ret>>

NextChunk == ChunkLoopHalve \/ ChunkLoopBreak

\* The loop runs without waiting on anything: an iteration that can be made
\* is made.
SpecChunk == InitChunk /\ [][NextChunk]_vars /\ WF_vars(NextChunk)

\* ================================== the chunks queried by RasterIOResampled
\* The rest of the resampling branch of GDALRasterBand::RasterIOResampled:
\* the loop that sizes the chunk, the allocation of the chunk of the source
\* and the two loops over the chunks of the buffer, each of which reads a
\* window of the source.  band holds the sizes of the raster and the width
\* of its blocks, req the window, the buffer, the radius of the kernel and,
\* for each axis, the side on which the double dfSize / nBufSize lies of the
\* exact quotient; loc holds the locals, obs the last window queried.

\* The least int.
INT_MIN == (0 - INT_MAX) - 1

\* a + b in int where the sum is beyond the range of int and the build wraps
\* it.
IntSum(a, b) ==
    IF b > 0 /\ a > INT_MAX - b THEN ((a - INT_MAX) + (b - INT_MAX)) - 2
    ELSE IF b < 0 /\ a < INT_MIN - b THEN ((a + INT_MAX) + (b + INT_MAX)) + 2
    ELSE a + b

\* a - b in int, wrapped likewise.
IntDiff(a, b) ==
    IF b = INT_MIN THEN IntSum(IntSum(a, INT_MAX), 1) ELSE IntSum(a, 0 - b)

\* k * x in int for a small k >= 0, wrapped likewise.
RECURSIVE IntTimes(_, _)
IntTimes(k, x) == IF k = 0 THEN 0 ELSE IntSum(IntTimes(k - 1, x), x)

\* a + b followed by "if( sum > nRasterSize ) sum = nRasterSize": beyond
\* INT_MAX the build either wraps the sum, and a negative sum is not cut, or
\* compares the sum it never stored, and cuts it.
SumCutToRaster(a, b, nRasterSize) ==
    IF b > 0 /\ a > INT_MAX - b
    THEN {IntSum(a, b), nRasterSize}
    ELSE {IF a + b > nRasterSize THEN nRasterSize ELSE a + b}

\* The whole part and the rest of n * dfSize / nBufSize in exact arithmetic,
\* for 0 <= n <= nBufSize.
ExactScaled(n, nSize, nBufSize) ==
    [whole |-> n * (nSize \div nBufSize) + (n * (nSize % nBufSize)) \div nBufSize,
     rest |-> (n * (nSize % nBufSize)) % nBufSize]

\* The sides on which the double dfSize / nBufSize may lie of the quotient.
RoundingsOf(nSize, nBufSize) ==
    IF nSize % nBufSize = 0 THEN {"exact"} ELSE {"below", "above"}

\* static_cast<int>(n * dfRatioDstToSrc): with a ratio below the quotient a
\* product that is whole in exact arithmetic may fall short of it.
FloorScaled(n, nSize, nBufSize, eRound) ==
    LET e == ExactScaled(n, nSize, nBufSize)
    IN IF e.rest = 0 /\ eRound = "below" /\ n > 0
       THEN {e.whole - 1, e.whole} ELSE {e.whole}

\* static_cast<int>(ceil(n * dfRatioDstToSrc)): with a ratio above the
\* quotient a product that is whole in exact arithmetic may exceed it.
CeilScaled(n, nSize, nBufSize, eRound) ==
    LET e == ExactScaled(n, nSize, nBufSize)
    IN IF e.rest # 0 THEN {e.whole + 1}
       ELSE IF eRound = "above" /\ n > 0 THEN {e.whole, e.whole + 1}
       ELSE {e.whole}

\* static_cast<int>(0.5 + dfRatioDstToSrc), and 1 in place of 0.
OvrFactor(nSize, nBufSize) ==
    LET n == nSize \div nBufSize + (IF 2 * (nSize % nBufSize) >= nBufSize THEN 1 ELSE 0)
    IN IF n = 0 THEN 1 ELSE n

\* nFullResChunk + 2 * nKernelRadius * nOvrFactor, cut to the raster.
FullResSizeQueried(nFullResChunk, nKernelRadius, nOvrFactor, nRasterSize) ==
    LET nMargin == IntTimes(2 * nKernelRadius, nOvrFactor)
    IN IF nFullResChunk >= 0 /\ nMargin >= 0
       THEN SumCutToRaster(nFullResChunk, nMargin, nRasterSize)
       ELSE {IF IntSum(nFullResChunk, nMargin) > nRasterSize
             THEN nRasterSize ELSE IntSum(nFullResChunk, nMargin)}

\* The arguments and the raster along x and along y.
XAxis ==
    [nOff |-> req.nXOff, nSize |-> req.nXSize, nBufSize |-> req.nBufXSize,
     eRound |-> req.eXRound, nRasterSize |-> band.nRasterXSize]
YAxis ==
    [nOff |-> req.nYOff, nSize |-> req.nYSize, nBufSize |-> req.nBufYSize,
     eRound |-> req.eYRound, nRasterSize |-> band.nRasterYSize]

\* The window of the source read along one axis for the chunk of the buffer
\* at nDstOff: the pixels counted, and the offset and the size queried once
\* the margin of the kernel is added and the window is cut to the raster.
ChunkQueried(nDstOff, nDstBlockSize, axis) ==
    LET nOff == axis.nOff
        nSize == axis.nSize
        nBufSize == axis.nBufSize
        eRound == axis.eRound
        nKernelRadius == req.nKernelRadius
        nOvrFactor == OvrFactor(nSize, nBufSize)
        nRasterSize == axis.nRasterSize
        nDstCount == IF nDstOff + nDstBlockSize <= nBufSize
                     THEN nDstBlockSize ELSE nBufSize - nDstOff
        nKernel == IntTimes(nKernelRadius, nOvrFactor)
        nKernel2 == IntTimes(2 * nKernelRadius, nOvrFactor)
        Queried(nChunkOff, nChunkOff2) ==
            LET nCount == IntDiff(nChunkOff2, nChunkOff)
                nOffQ == IntDiff(nChunkOff, nKernel)
                nSizeQ == IntSum(nCount, nKernel2)
                nOffQ1 == IF nOffQ < 0 THEN 0 ELSE nOffQ
                nSizeQ1 == IF nOffQ < 0 THEN IntSum(nSizeQ, nOffQ) ELSE nSizeQ
                cut == [nCount |-> nCount, nChunkOffQueried |-> nOffQ1,
                        nChunkSizeQueried |-> IntDiff(nRasterSize, nOffQ1)]
                kept == [nCount |-> nCount, nChunkOffQueried |-> nOffQ1,
                         nChunkSizeQueried |-> nSizeQ1]
            IN IF nSizeQ1 > 0 /\ nOffQ1 > INT_MAX - nSizeQ1
               THEN {kept, cut}
               ELSE IF IntSum(nSizeQ1, nOffQ1) > nRasterSize THEN {cut} ELSE {kept}
    IN UNION {Queried(IntSum(nOff, f), nChunkOff2) :
                 f \in FloorScaled(nDstOff, nSize, nBufSize, eRound),
                 nChunkOff2 \in UNION {SumCutToRaster(nOff + 1, c, nRasterSize) :
                                         c \in CeilScaled(nDstOff + nDstCount, nSize,
                                                          nBufSize, eRound)}}

\* The windows explored along one axis, as <<nRasterSize, nOff, nSize>>: at
\* the edges of the raster or MaxEdgeMargin pixels off them, and at the far
\* edge of a raster of INT_MAX pixels.
QueryWindows(sizes) ==
    UNION {IF nSize <= (INT_MAX - nBefore) - nAfter
           THEN {<<nBefore + nSize + nAfter, nBefore, nSize>>,
                 <<INT_MAX, INT_MAX - nSize, nSize>>}
           ELSE {} :
              nSize \in sizes, nBefore \in {0, MaxEdgeMargin}, nAfter \in {0, MaxEdgeMargin}}

InitChunkQuery ==
    /\ \E wx \in QueryWindows({1, 2, MaxChunkWindowSize \div 40, MaxChunkWindowSize,
                               INT_MAX}),
          wy \in QueryWindows({2, MaxChunkWindowSize}),
          nBufXSize \in {1, 3, MaxChunkBufSize}, nBufYSize \in {1, MaxChunkBufSize},
          nKernelRadius \in {0, 1, MaxKernelRadius}, bWideBlocks \in BOOLEAN :
          /\ wx[3] <= INT_MAX \div nBufXSize
          /\ wy[3] <= INT_MAX \div nBufYSize
          /\ band = [nRasterXSize |-> wx[1], nRasterYSize |-> wy[1],
                     nBlockXSize |-> IF bWideBlocks THEN wx[1] ELSE 1]
          /\ \E eXRound \in RoundingsOf(wx[3], nBufXSize),
                eYRound \in RoundingsOf(wy[3], nBufYSize) :
                req = [nXOff |-> wx[2], nYOff |-> wy[2],
                       nXSize |-> wx[3], nYSize |-> wy[3],
                       nBufXSize |-> nBufXSize, nBufYSize |-> nBufYSize,
                       eXRound |-> eXRound, eYRound |-> eYRound,
                       nKernelRadius |-> nKernelRadius]
          /\ loc = [nDstBlockXSize |-> nBufXSize, nDstBlockYSize |-> nBufYSize,
                    nFullResXChunk |-> 0, nFullResYChunk |-> 0,
                    nFullResXSizeQueried |-> 0, nFullResYSizeQueried |-> 0,
                    nDstXOff |-> 0, nDstYOff |-> 0, row |-> <<>>]
    /\ pc = "chunkloop"
    /\ obs = <<>>
    /\ ret = "none"
    /\ blocks = <<>>
    /\ pData = <<>>

\* An iteration of the loop that sizes the chunk.
QuerySizeChunk ==
    /\ pc = "chunkloop"
    /\ \E x \in UNION {FullResChunk(n, band.nRasterXSize) :
                         n \in FloorScaled(loc.nDstBlockXSize, req.nXSize,
                                           req.nBufXSize, req.eXRound)},
          y \in UNION {FullResChunk(n, band.nRasterYSize) :
                         n \in FloorScaled(loc.nDstBlockYSize, req.nYSize,
                                           req.nBufYSize, req.eYRound)} :
          LET l == [loc EXCEPT !.nFullResXChunk = x, !.nFullResYChunk = y]
          IN IF ChunkFits(l)
             THEN loc' = l /\ pc' = "chunkalloc"
             ELSE loc' = HalveChunk(l, req.nXSize, band.nBlockXSize) /\ pc' = pc
    /\ UNCHANGED <<band, blocks, req, pData, ret, obs>>

\* The allocation of the chunk of the source: a size that is negative as an
\* int is beyond what can be allocated, and an allocation may fail anyway.
QueryAllocate ==
    /\ pc = "chunkalloc"
    /\ \E x \in FullResSizeQueried(loc.nFullResXChunk, req.nKernelRadius,
                                   OvrFactor(req.nXSize, req.nBufXSize),
                                   band.nRasterXSize),
          y \in FullResSizeQueried(loc.nFullResYChunk, req.nKernelRadius,
                                   OvrFactor(req.nYSize, req.nBufYSize),
                                   band.nRasterYSize),
          bAllocated \in BOOLEAN :
          /\ loc' = [loc EXCEPT !.nFullResXSizeQueried = x, !.nFullResYSizeQueried = y]
          /\ IF bAllocated /\ x > 0 /\ y > 0
             THEN pc' = "chunkquery" /\ ret' = ret
             ELSE pc' = "chunkdone" /\ ret' = CE_Failure
    /\ UNCHANGED <<band, blocks, req, pData, obs>>

\* The body of the two loops for the chunk of the buffer at <<nDstXOff,
\* nDstYOff>>: the window of the source is computed, along y at the first
\* chunk of a row, and read; a read that fails ends the loops.
QueryChunk ==
    /\ pc = "chunkquery"
    /\ loc.nDstYOff < req.nBufYSize
    /\ \E row \in (IF loc.nDstXOff = 0
                   THEN ChunkQueried(loc.nDstYOff, loc.nDstBlockYSize, YAxis)
                   ELSE {loc.row}),
          col \in ChunkQueried(loc.nDstXOff, loc.nDstBlockXSize, XAxis),
          bRead \in BOOLEAN :
          LET bRowDone == loc.nDstXOff + loc.nDstBlockXSize >= req.nBufXSize
          IN /\ obs' = [nXCount |-> col.nCount, nYCount |-> row.nCount,
                        nChunkXOffQueried |-> col.nChunkOffQueried,
                        nChunkYOffQueried |-> row.nChunkOffQueried,
                        nChunkXSizeQueried |-> col.nChunkSizeQueried,
                        nChunkYSizeQueried |-> row.nChunkSizeQueried]
             /\ IF bRead
                THEN /\ loc' = [loc EXCEPT
                                  !.row = row,
                                  !.nDstXOff = IF bRowDone THEN 0
                                               ELSE @ + loc.nDstBlockXSize,
                                  !.nDstYOff = IF bRowDone THEN @ + loc.nDstBlockYSize
                                               ELSE @]
                     /\ pc' = pc /\ ret' = ret
                ELSE /\ loc' = [loc EXCEPT !.row = row]
                     /\ pc' = "chunkdone" /\ ret' = CE_Failure
    /\ UNCHANGED <<band, blocks, req, pData>>

\* The loops have run over the whole buffer.
QueryReturn ==
    /\ pc = "chunkquery"
    /\ loc.nDstYOff >= req.nBufYSize
    /\ pc' = "chunkdone"
    /\ ret' = CE_None
    /\ UNCHANGED <<band, blocks, req, pData, loc, obs>>

NextChunkQuery == QuerySizeChunk \/ QueryAllocate \/ QueryChunk \/ QueryReturn

SpecChunkQuery == InitChunkQuery /\ [][NextChunkQuery]_vars

\* ============================================ GDALCopyWholeRasterGetSwathSize
\* The swath of a whole-raster copy.  req holds the arguments and what the
\* function reads of the two prototype bands and of the configuration:
\* pszSwathSize is <<>> for an unset GDAL_SWATH_SIZE and <<n>> for the value n,
\* nCacheMax is GDALGetCacheMax64(), bSrcJPEG2000 tells whether the source
\* band has a COMPRESSION item of value JPEG2000.  ret holds the result.

\* The least target swath size.
MinTargetSwathSize == 1000000

IS_DIVIDER_OF(x, y) == y % x = 0
\* A rounding that rounds nothing.
ROUND_TO_Kept(x, y) == x

ROUND_TO(x, y) == (x \div y) * y

\* nPixelSize
SwathPixelSize(a) ==
    IF a.bInterleave
    THEN GDALGetDataTypeSizeBytes(a.eDT) * a.nBandCount
    ELSE GDALGetDataTypeSizeBytes(a.eDT)

\* nTargetSwathSize
TargetSwathSize(a) ==
    LET nPixelSize == SwathPixelSize(a)
        nQuarter == Min(INT_MAX, a.nCacheMax \div 4)
        nRowOfBlocks == a.nXSize * a.nBlockYSize * nPixelSize
        nIdeal0 == IF nRowOfBlocks < nQuarter /\ nRowOfBlocks < 10 * 1000 * 1000
                   THEN 10 * 1000 * 1000
                   ELSE nRowOfBlocks
        nIdeal == IF /\ a.bSrcJPEG2000
                     /\ \/ ~a.bDstIsCompressed
                        \/ /\ a.nSrcBlockXSize % a.nBlockXSize = 0
                           /\ a.nSrcBlockYSize % a.nBlockYSize = 0
                  THEN Max(nIdeal0, a.nXSize * a.nSrcBlockYSize * nPixelSize)
                  ELSE nIdeal0
        nTarget == IF a.pszSwathSize # <<>>
                   THEN Min(INT_MAX, a.pszSwathSize[1])
                   ELSE IF nQuarter > nIdeal THEN Min(INT_MAX, nIdeal) ELSE nQuarter
    IN IF nTarget < MinTargetSwathSize THEN MinTargetSwathSize ELSE nTarget

\* <<nSwathCols, nSwathLines>> once the blocks of the two bands are looked at:
\* a row of blocks of the destination, or a multiple of the larger block when
\* both bands are tiled with compatible blocks.
SwathOfBlocks(a, nTargetSwathSize) ==
    LET nPixelSize == SwathPixelSize(a)
        nMaxBlockXSize == Max(a.nBlockXSize, a.nSrcBlockXSize)
        nMaxBlockYSize == Max(a.nBlockYSize, a.nSrcBlockYSize)
        nCols0 == ROUND_TO(nTargetSwathSize \div (nMaxBlockYSize * nPixelSize),
                           nMaxBlockXSize)
        nCols1 == IF nCols0 = 0 THEN nMaxBlockXSize ELSE nCols0
        nCols == IF nCols1 > a.nXSize THEN a.nXSize ELSE nCols1
    IN IF /\ a.nBlockXSize # a.nXSize /\ a.nSrcBlockXSize # a.nXSize
          /\ IS_DIVIDER_OF(a.nBlockXSize, nMaxBlockXSize)
          /\ IS_DIVIDER_OF(a.nSrcBlockXSize, nMaxBlockXSize)
          /\ IS_DIVIDER_OF(a.nBlockYSize, nMaxBlockYSize)
          /\ IS_DIVIDER_OF(a.nSrcBlockYSize, nMaxBlockYSize)
          /\ nMaxBlockXSize * nMaxBlockYSize * nPixelSize <= nTargetSwathSize
          /\ nCols * nMaxBlockYSize * nPixelSize <= nTargetSwathSize
       THEN <<nCols, nMaxBlockYSize>>
       ELSE <<a.nXSize, a.nBlockYSize>>

\* nSwathLines once compared with the target: cut down to the target, but not
\* below one line, or grown towards it.
SwathLinesForTarget(a, nTargetSwathSize, nSwathCols, nSwathLines) ==
    LET nMemoryPerCol == nSwathCols * SwathPixelSize(a)
        nMaxBlockYSize == Max(a.nBlockYSize, a.nSrcBlockYSize)
        nGrown == Min(a.nYSize, Max(1, nTargetSwathSize \div nMemoryPerCol))
    IN IF nMemoryPerCol * nSwathLines > nTargetSwathSize
       THEN IF nTargetSwathSize \div nMemoryPerCol = 0
            THEN 1
            ELSE nTargetSwathSize \div nMemoryPerCol
       ELSE IF nSwathLines = 1
               \/ nMemoryPerCol * nSwathLines < nTargetSwathSize \div 10
       THEN IF /\ nGrown % nMaxBlockYSize # 0
               /\ nGrown > nMaxBlockYSize
               /\ IS_DIVIDER_OF(a.nBlockYSize, nMaxBlockYSize)
               /\ IS_DIVIDER_OF(a.nSrcBlockYSize, nMaxBlockYSize)
            THEN ROUND_TO(nGrown, nMaxBlockYSize)
            ELSE nGrown
       ELSE nSwathLines

\* The columns of a swath of whole blocks of width nWidth when the target is
\* divided by nDivisor.
SwathColsOfBlocks(a, nTargetSwathSize, nDivisor, nWidth) ==
    LET nCols0 == ROUND_TO(nTargetSwathSize \div nDivisor, nWidth)
        nCols1 == IF nCols0 = 0 THEN nWidth ELSE nCols0
    IN IF nCols1 > a.nXSize THEN a.nXSize ELSE nCols1

\* <<nSwathCols, nSwathLines>> once the compression of the two bands is looked
\* at: whole blocks of a JPEG2000 source, or of a compressed destination.
SwathOfCompressedBlocks(a, nTargetSwathSize, nSwathCols, nSwathLines) ==
    LET nPixelSize == SwathPixelSize(a)
    IN IF /\ a.bSrcJPEG2000
          /\ \/ ~a.bDstIsCompressed
             \/ /\ IS_DIVIDER_OF(a.nBlockXSize, a.nSrcBlockXSize)
                /\ IS_DIVIDER_OF(a.nBlockYSize, a.nSrcBlockYSize)
       THEN IF nSwathLines < a.nSrcBlockYSize
            THEN <<SwathColsOfBlocks(a, nTargetSwathSize,
                                     a.nSrcBlockXSize * nPixelSize, a.nSrcBlockXSize),
                   a.nSrcBlockYSize>>
            ELSE <<nSwathCols, ROUND_TO(nSwathLines, a.nSrcBlockYSize)>>
       ELSE IF a.bDstIsCompressed
       THEN IF nSwathLines < a.nBlockYSize
            THEN <<SwathColsOfBlocks(a, nTargetSwathSize,
                                     a.nBlockYSize * nPixelSize, a.nBlockXSize),
                   a.nBlockYSize>>
            ELSE <<nSwathCols, ROUND_TO(nSwathLines, a.nBlockYSize)>>
       ELSE <<nSwathCols, nSwathLines>>

GDALCopyWholeRasterGetSwathSize(a) ==
    LET nTargetSwathSize == TargetSwathSize(a)
        blocks0 == SwathOfBlocks(a, nTargetSwathSize)
        nLines == SwathLinesForTarget(a, nTargetSwathSize, blocks0[1], blocks0[2])
        swath == SwathOfCompressedBlocks(a, nTargetSwathSize, blocks0[1], nLines)
    IN [nSwathCols |-> swath[1], nSwathLines |-> swath[2],
        nTargetSwathSize |-> nTargetSwathSize]

\* The rasters explored: (width, height, blocks) of rasters of one wide line
\* per block or strip, and of rasters of tiles of up to MaxSwathBlockSize.
SwathRasters ==
    {<<MaxSwathXSize, h, {<<MaxSwathXSize, 1>>, <<MaxSwathXSize, 16>>}>> :
        h \in {1, 16, 1000}}
    \cup
    {<<2 * MaxSwathBlockSize, h,
       {<<2 * MaxSwathBlockSize, 1>>,
        <<256, 256>>, <<256, MaxSwathBlockSize>>,
        <<MaxSwathBlockSize \div 2, MaxSwathBlockSize \div 2>>,
        <<MaxSwathBlockSize, 256>>}>> :
        h \in {256, 2 * MaxSwathBlockSize}}

InitSwath ==
    /\ \E r \in SwathRasters :
          \E src \in r[3], dst \in r[3],
             eDT \in {GDT_Byte, GDT_Float64}, nBandCount \in {1, 3},
             bDstIsCompressed \in BOOLEAN, bInterleave \in BOOLEAN,
             bSrcJPEG2000 \in BOOLEAN,
             pszSwathSize \in {<<>>, <<1>>, <<5000000>>},
             nCacheMax \in {4000000, 40000000, 400000000} :
             req = [nXSize |-> r[1], nYSize |-> r[2],
                    nSrcBlockXSize |-> src[1], nSrcBlockYSize |-> src[2],
                    nBlockXSize |-> dst[1], nBlockYSize |-> dst[2],
                    eDT |-> eDT, nBandCount |-> nBandCount,
                    bDstIsCompressed |-> bDstIsCompressed,
                    bInterleave |-> bInterleave,
                    bSrcJPEG2000 |-> bSrcJPEG2000,
                    pszSwathSize |-> pszSwathSize,
                    nCacheMax |-> nCacheMax]
    /\ pc = "swathcall"
    /\ ret = "none"
    /\ band = <<>>
    /\ blocks = <<>>
    /\ pData = <<>>
    /\ loc = <<>>
    /\ obs = <<>>

GetSwathSize ==
    /\ pc = "swathcall"
    /\ ret' = GDALCopyWholeRasterGetSwathSize(req)
    /\ pc' = "swathdone"
    /\ UNCHANGED <<band, blocks, req, pData, loc, obs>>

NextSwath == GetSwathSize

SpecSwath == InitSwath /\ [][NextSwath]_vars

\* =============================================== GDALDataset::BlockBasedRasterIO
\* The case of BlockBasedRasterIO for a buffer of the size of the window: the
\* window is walked by rows of blocks and, in each, by blocks; every band is
\* asked for the chunk of a block before the next block is looked at.  band
\* holds the sizes of the raster and of the blocks the bands share, req the
\* request, loc.iBufYOff the row loop, obs the calls of IRasterIO made on the
\* bands (<<iBand, nChunkXOff, nChunkYOff, nChunkXSize, nChunkYSize>>) and the
\* fractions given to the progress callback, each <<numerator, denominator>>
\* followed by the rows of the buffer done when it was given.

InitBlockBased ==
    /\ \E w \in 1 .. MaxBlockBasedSize, h \in 1 .. MaxBlockBasedSize,
          bw \in 1 .. MaxBlockXSize, bh \in 1 .. MaxBlockYSize :
          /\ band = [nRasterXSize |-> w, nRasterYSize |-> h,
                     nBlockXSize |-> bw, nBlockYSize |-> bh]
          /\ \E nXSize \in {1, w}, nYSize \in 1 .. h, nBandCount \in 1 .. MaxCopyBands,
                eRWFlag \in {GF_Read, GF_Write}, bProgress \in BOOLEAN :
                \E nYOff \in 0 .. h - nYSize :
                   req = [eRWFlag |-> eRWFlag,
                          nXOff |-> w - nXSize, nYOff |-> nYOff,
                          nXSize |-> nXSize, nYSize |-> nYSize,
                          nBufXSize |-> nXSize, nBufYSize |-> nYSize,
                          nBandCount |-> nBandCount, pfnProgress |-> bProgress]
    /\ loc = [iBufYOff |-> 0]
    /\ obs = [calls |-> <<>>, progressLog |-> <<>>]
    /\ pc = "blockbased"
    /\ ret = "running"
    /\ blocks = <<>>
    /\ pData = <<>>

\* nChunkYSize, and nChunkXSize: what is left of the block of the offset, cut
\* at the end of the window.
ChunkSize(nChunkOff, nBlockSize, nOff, nSize) ==
    LET n == nBlockSize - (nChunkOff % nBlockSize)
    IN IF nChunkOff + n > nOff + nSize THEN (nOff + nSize) - nChunkOff ELSE n

\* The calls of IRasterIO of the loop over the blocks of a row of blocks, from
\* buffer column iBufXOff on.
RECURSIVE ChunkCalls(_, _, _)
ChunkCalls(iBufXOff, nChunkYOff, nChunkYSize) ==
    IF iBufXOff >= req.nBufXSize THEN <<>>
    ELSE LET nChunkXOff == iBufXOff + req.nXOff
             nChunkXSize == ChunkSize(nChunkXOff, band.nBlockXSize, req.nXOff, req.nXSize)
         IN [iBand \in 1 .. req.nBandCount |->
                <<iBand - 1, nChunkXOff, nChunkYOff, nChunkXSize, nChunkYSize>>]
            \o ChunkCalls(iBufXOff + nChunkXSize, nChunkYOff, nChunkYSize)

\* 1.0 * std::max(nBufYSize, iBufYOff + nChunkYSize) / nBufYSize
ChunkProgress(iBufYOff, nChunkYSize, nBufYSize) ==
    <<Max(nBufYSize, iBufYOff + nChunkYSize), nBufYSize>>

\* One iteration of the loop over the rows of blocks: the calls on the bands,
\* of which one may fail, and the report to the progress callback, which may
\* ask to stop.
BlockBasedRow ==
    /\ pc = "blockbased"
    /\ LET nChunkYOff == loc.iBufYOff + req.nYOff
           nChunkYSize == ChunkSize(nChunkYOff, band.nBlockYSize, req.nYOff, req.nYSize)
           calls == ChunkCalls(0, nChunkYOff, nChunkYSize)
           nDone == loc.iBufYOff + nChunkYSize
       IN \E nFailed \in 0 .. Len(calls), bContinue \in BOOLEAN :
             IF nFailed > 0
             THEN \* the call number nFailed did not return CE_None
                  /\ obs' = [obs EXCEPT !.calls = @ \o SubSeq(calls, 1, nFailed)]
                  /\ Return(CE_Failure)
                  /\ loc' = loc
             ELSE /\ obs' = [obs EXCEPT
                               !.calls = @ \o calls,
                               !.progressLog =
                                   IF req.pfnProgress
                                   THEN Append(@, ChunkProgress(loc.iBufYOff, nChunkYSize,
                                                                req.nBufYSize)
                                                  \o <<nDone>>)
                                   ELSE @]
                  /\ loc' = [loc EXCEPT !.iBufYOff = nDone]
                  /\ IF req.pfnProgress /\ ~bContinue THEN Return(CE_Failure)
                     ELSE IF nDone >= req.nBufYSize THEN Return(CE_None)
                     ELSE pc' = pc /\ ret' = ret
    /\ UNCHANGED <<band, blocks, req, pData>>

NextBlockBased == BlockBasedRow

SpecBlockBased == InitBlockBased /\ [][NextBlockBased]_vars

\* =========================================================== GLLabelManager
\* The label manager of the renderer (renderer/core/GLLabelManager.cpp).
\* Every operation holds mutex_ from its first statement to its return, so
\* the calls of several threads happen one after the other, in any order.
\* band holds the members of the manager: labels_, the map from ids to
\* labels, of a label its priority_; label_priorities_, the set of ids of each
\* priority; map_idx_, the next id; always_render_idx_; and the priority of a
\* label made by the default constructor of GLLabel, which this file does
\* not define.

Priorities == {"TEP_High", "TEP_Standard", "TEP_Low"}
\* The value of always_render_idx_ that names no label: an id never issued.
NO_ID == 0 - 1

\* The constructor.
InitLabels ==
    /\ \E p \in Priorities :
          band = [labels_ |-> <<>>,
                  label_priorities_ |-> [q \in Priorities |-> {}],
                  map_idx_ |-> 0,
                  always_render_idx_ |-> NO_ID,
                  defaultPriority |-> p]
    /\ blocks = <<>>
    /\ req = <<>>
    /\ pData = <<>>
    /\ pc = "labels"
    /\ loc = <<>>
    /\ ret = "none"
    /\ obs = <<>>

\* labels_ after an access labels_[id]: operator[] of std::map inserts a
\* label made by the default constructor where the key is absent.
LabelsAfterAccess(labels, id) ==
    IF id \in DOMAIN labels THEN labels
    ELSE [k \in DOMAIN labels \cup {id} |->
             IF k = id THEN [priority_ |-> band.defaultPriority] ELSE labels[k]]

\* labels_.erase(id)
LabelsErase(labels, id) == [k \in DOMAIN labels \ {id} |-> labels[k]]

\* addLabel(label) for a label of priority priority_
addLabel ==
    /\ pc = "labels"
    /\ band.map_idx_ < MaxLabelIds
    /\ \E priority_ \in Priorities :
          /\ band' = [band EXCEPT
                        !.label_priorities_[priority_] = @ \cup {band.map_idx_},
                        !.labels_ = [k \in DOMAIN @ \cup {band.map_idx_} |->
                                        IF k = band.map_idx_
                                        THEN [priority_ |-> priority_] ELSE @[k]],
                        !.map_idx_ = @ + 1]
          /\ ret' = band.map_idx_
    /\ UNCHANGED <<blocks, req, pData, pc, loc, obs>>

\* removeLabel(id)
removeLabel ==
    /\ pc = "labels"
    /\ \E id \in 0 .. MaxLabelIds :
          IF band.map_idx_ <= id
          THEN band' = band
          ELSE LET labels == LabelsAfterAccess(band.labels_, id)
               IN band' = [band EXCEPT
                             !.label_priorities_[labels[id].priority_] = @ \ {id},
                             !.labels_ = LabelsErase(labels, id),
                             !.always_render_idx_ = IF @ = id THEN NO_ID ELSE @]
    /\ ret' = "none"
    /\ UNCHANGED <<blocks, req, pData, pc, loc, obs>>

\* setText(id, text), and the setters of the same shape: setGeometry,
\* setAltitudeMode, setTextFormat, setVisible, setMaxDrawResolution,
\* setAlignment, setVerticalAlignment, setDesiredOffset, setColor,
\* setBackColor, setFill and setRotation.
setText ==
    /\ pc = "labels"
    /\ \E id \in 0 .. MaxLabelIds :
          IF band.map_idx_ <= id
          THEN band' = band
          ELSE band' = [band EXCEPT !.labels_ = LabelsAfterAccess(@, id)]
    /\ ret' = "none"
    /\ UNCHANGED <<blocks, req, pData, pc, loc, obs>>

\* setAlwaysRender(id, always_render)
setAlwaysRender ==
    /\ pc = "labels"
    /\ \E id \in 0 .. MaxLabelIds, always_render \in BOOLEAN :
          IF band.map_idx_ <= id
          THEN band' = band
          ELSE band' = [band EXCEPT
                          !.labels_ = LabelsAfterAccess(@, id),
                          !.always_render_idx_ = IF always_render THEN id
                                                 ELSE IF @ = id THEN NO_ID ELSE @]
    /\ ret' = "none"
    /\ UNCHANGED <<blocks, req, pData, pc, loc, obs>>

\* setPriority(id, priority)
setPriority ==
    /\ pc = "labels"
    /\ \E id \in 0 .. MaxLabelIds, priority \in Priorities :
          band' = [band EXCEPT
                     !.label_priorities_ = [q \in Priorities |->
                                               IF q = priority THEN @[q] \cup {id}
                                               ELSE @[q] \ {id}],
                     !.labels_ = [k \in DOMAIN @ \cup {id} |->
                                     IF k = id THEN [priority_ |-> priority] ELSE @[k]]]
    /\ ret' = "none"
    /\ UNCHANGED <<blocks, req, pData, pc, loc, obs>>

\* stop()
stop ==
    /\ pc = "labels"
    /\ band' = [band EXCEPT !.labels_ = <<>>]
    /\ ret' = "none"
    /\ UNCHANGED <<blocks, req, pData, pc, loc, obs>>

NextLabels ==
    addLabel \/ removeLabel \/ setText \/ setAlwaysRender \/ setPriority \/ stop

SpecLabels == InitLabels /\ [][NextLabels]_vars

\* ================================================================= claims
Succeeded == pc = "done" /\ ret = CE_None
Running == pc \notin {"idle", "done"}
IsDirectPath == obs.path \in {"packed", "window"}
FetchedBlock(k) == <<obs.fetchLog[k][1], obs.fetchLog[k][2]>>
IsPartialBlock(b) == \E c \in CellsOfBlock(b) : ~InRaster(c)

\* C1: after a successful read that needs no resampling (packed or 1:1
\* window case), buffer pixel (i, j) holds the source pixel (nXOff + i, nYOff + j).
C1_DirectReadCopiesWindow ==
    (Succeeded /\ req.eRWFlag = GF_Read /\ IsDirectPath)
    => \A d \in BufCells : pData[d] = SrcWord(req.nXOff + d[1], req.nYOff + d[2])

\* A finished 1:1 read of a window that starts inside a block and spans two
\* block columns and two block rows.
C1_Witness ==
    /\ Succeeded /\ req.eRWFlag = GF_Read /\ obs.path = "window"
    /\ req.nXOff % band.nBlockXSize # 0 /\ req.nYOff % band.nBlockYSize # 0
    /\ Len(obs.fetchLog) = 4
    /\ pData[<<req.nBufXSize - 1, req.nBufYSize - 1>>]
         = SrcWord(req.nXOff + req.nXSize - 1, req.nYOff + req.nYSize - 1)

\* C2: after a successful nearest-neighbour resampled read, buffer pixel (i, j)
\* holds the source pixel at column floor((i + 0.5) * nXSize / nBufXSize + nXOff)
\* and row floor((j + 0.5) * nYSize / nBufYSize + nYOff), whatever the block size.
C2_NearestReadIgnoresBlocks ==
    (Succeeded /\ obs.path = "read")
    => \A d \in BufCells :
          pData[d] = SrcWord(req.nXOff + ((2 * d[1] + 1) * req.nXSize) \div (2 * req.nBufXSize),
                             req.nYOff + ((2 * d[2] + 1) * req.nYSize) \div (2 * req.nBufYSize))

\* C3 (as claimed): a successful nearest-neighbour read that decimates by 2 in
\* both axes puts the source pixel (nXOff + 2i, nYOff + 2j) in buffer pixel (i, j).
C3_DecimationReadsEvenPixels ==
    (Succeeded /\ obs.path = "read"
     /\ req.nXSize = 2 * req.nBufXSize /\ req.nYSize = 2 * req.nBufYSize)
    => \A d \in BufCells :
          pData[d] = SrcWord(req.nXOff + 2 * d[1], req.nYOff + 2 * d[2])

\* C3 (amended): a successful nearest-neighbour read that decimates by 2 in
\* both axes puts the source pixel (nXOff + 2i + 1, nYOff + 2j + 1) in buffer
\* pixel (i, j).
C3_DecimationReadsOddPixels ==
    (Succeeded /\ obs.path = "read"
     /\ req.nXSize = 2 * req.nBufXSize /\ req.nYSize = 2 * req.nBufYSize)
    => \A d \in BufCells :
          pData[d] = SrcWord(req.nXOff + 2 * d[1] + 1, req.nYOff + 2 * d[2] + 1)

\* The scenario: the whole raster read into a buffer of half its size took
\* four block fetches and returned the pixels (1,1), (3,1), (1,3), (3,3).
C3_Witness ==
    /\ Succeeded /\ obs.path = "read"
    /\ req.nXOff = 0 /\ req.nYOff = 0
    /\ req.nXSize = band.nRasterXSize /\ req.nYSize = band.nRasterYSize
    /\ req.nXSize = 2 * req.nBufXSize /\ req.nYSize = 2 * req.nBufYSize
    /\ req.nBufXSize = 2 /\ req.nBufYSize = 2
    /\ Len(obs.fetchLog) = 4
    /\ pData = [d \in BufCells |-> SrcWord(2 * d[1] + 1, 2 * d[2] + 1)]

\* C4: a block is requested with bJustInitialize only by a write and only when
\* every pixel of the block that lies in the raster lies in the window; during
\* and after a request every raster pixel outside the window holds the word it
\* held before.
C4_JustInitializeOnlyWhenCovered ==
    /\ \A k \in 1 .. Len(obs.fetchLog) :
          obs.fetchLog[k][3]
          => /\ req.eRWFlag = GF_Write
             /\ \A c \in CellsOfBlock(FetchedBlock(k)) : InRaster(c) => InWindow(c)
    /\ \A c \in Cells :
          (InRaster(c) /\ ~InWindow(c)) => blocks[c] = SrcWord(c[1], c[2])

\* A finished write that fetched one block with bJustInitialize and another,
\* which the window covers only in part, without.
C4_Witness ==
    /\ Succeeded /\ req.eRWFlag = GF_Write
    /\ \E k \in 1 .. Len(obs.fetchLog) : obs.fetchLog[k][3]
    /\ \E k \in 1 .. Len(obs.fetchLog) :
          /\ ~obs.fetchLog[k][3]
          /\ \E c \in CellsOfBlock(FetchedBlock(k)) : InRaster(c) /\ ~InWindow(c)

\* The window of the request is exactly the part of block b inside the raster.
WindowIsBlockInRaster(b) ==
    \A c \in Cells : InWindow(c) <=> (c \in CellsOfBlock(b) /\ InRaster(c))

\* C5: after a successful 1:1 write whose window is exactly the in-raster part
\* of a partial edge block, the cells of that block outside the raster are zero
\* and the cells inside hold the words written.
C5_EdgeBlockZeroFilled ==
    (Succeeded /\ req.eRWFlag = GF_Write /\ IsDirectPath)
    => \A b \in BlockIds :
          (IsPartialBlock(b) /\ WindowIsBlockInRaster(b))
          => \A c \in CellsOfBlock(b) :
                blocks[c] = IF InRaster(c)
                            THEN UsrWord(c[1] - req.nXOff, c[2] - req.nYOff)
                            ELSE ZeroWord

\* A finished 1:1 write of the in-raster part of a block that sticks out of the
\* raster on the right and at the bottom.
C5_Witness ==
    /\ Succeeded /\ req.eRWFlag = GF_Write /\ obs.path = "window"
    /\ \E b \in BlockIds :
          /\ WindowIsBlockInRaster(b)
          /\ \E c \in CellsOfBlock(b) : c[1] >= band.nRasterXSize
          /\ \E c \in CellsOfBlock(b) : c[2] >= band.nRasterYSize
          /\ \E c \in CellsOfBlock(b) : blocks[c] = ZeroWord

\* A request enters IRasterIO while a flush error is stored.
EntersWithFlushError == pc = "idle" /\ pc' # "idle" /\ band.eFlushBlockErr # CE_None

C8_EveryFetchPolled ==
    /\ Running => Len(obs.fetchLog) = obs.nPolls
    /\ obs.interrupted
       => (pc = "done" /\ ret = CE_Interrupted /\ Len(obs.fetchLog) = obs.nPolls - 1)

\* C9: once the progress callback has returned FALSE, no block is fetched, the
\* callback is not called again and the request returns CE_Failure.
C9_StopEndsRequest ==
    /\ [][(obs.stopped /\ Running)
          => (obs'.fetchLog = obs.fetchLog /\ obs'.progressLog = obs.progressLog)]_vars
    /\ []((obs.stopped /\ pc = "done") => ret = CE_Failure)

\* C10: in the packed and 1:1 window cases the request holds the lock of at
\* most one block at any moment.
C10_OneLockInDirectPaths ==
    IsDirectPath
    => /\ \A b \in BlockIds : obs.locks[b] \in {0, 1}
       /\ Cardinality({b \in BlockIds : obs.locks[b] > 0}) <= 1
       /\ \A b \in BlockIds : obs.locks[b] > 0 => b = loc.poBlock

\* The packed case holds the lock of its second block: the first was dropped.
C10_Witness ==
    /\ pc = "packed" /\ Len(obs.fetchLog) = 2
    /\ obs.locks[loc.poBlock] = 1
    /\ obs.locks[FetchedBlock(1)] = 0

\* C11: when IRasterIO has returned, whatever the outcome and the case, no
\* block is left with a lock the request took and did not release.
C11_NoLockHeldOnReturn ==
    pc = "done" => \A b \in BlockIds : ~(obs.locks[b] > 0)

\* A request interrupted after it had fetched, and so locked, a block.
C11_Witness ==
    /\ pc = "done" /\ ret = CE_Interrupted
    /\ Len(obs.fetchLog) >= 1
    /\ \A b \in BlockIds : ~(obs.locks[b] > 0)

\* The desired resolution of the request examined by the overview selection.
OvrDesired == DesiredResolution(band.nRasterXSize, band.nRasterYSize,
                                req.nBufXSize, req.nBufYSize)

\* Overview k (from 1) can be used and its resolution is below 1.2 x the desired.
OvrBelowLimit(k) ==
    LET o == band.papoOverviews[k]
    IN /\ o # NullOverview /\ ~o.bAverageBit2
       /\ RatLess(OverviewResolution(o), DesiredLimit(OvrDesired))

\* Overview k (from 1) can be used and its resolution is at most 1.2 x the desired.
OvrWithinLimit(k) ==
    LET o == band.papoOverviews[k]
    IN /\ o # NullOverview /\ ~o.bAverageBit2
       /\ RatLeq(OverviewResolution(o), DesiredLimit(OvrDesired))

OvrLevels == 1 .. Len(band.papoOverviews)

\* C12 (as claimed): the level returned is that of an overview whose
\* resolution is the largest among the overviews, not tagged AVERAGE_BIT2, with
\* a resolution <= 1.2 x the desired one; -1 is returned exactly when there is
\* no such overview.
C12_BestOverviewWithinLimit ==
    pc = "ovrdone"
    => /\ (ret = -1) <=> ~(\E k \in OvrLevels : OvrWithinLimit(k))
       /\ ret # -1
          => /\ OvrWithinLimit(ret + 1)
             /\ \A k \in OvrLevels :
                   OvrWithinLimit(k)
                   => RatLeq(OverviewResolution(band.papoOverviews[k]),
                             OverviewResolution(band.papoOverviews[ret + 1]))

\* C12 (amended): the level returned is that of an overview, not tagged
\* AVERAGE_BIT2, whose resolution is at most 1.2 x the desired one and at least
\* that of every such overview with a resolution strictly below 1.2 x the
\* desired one; -1 is returned only when no overview is strictly below it.
C12_BestOverviewBelowLimit ==
    pc = "ovrdone"
    => /\ ret \in -1 .. Len(band.papoOverviews) - 1
       /\ ret = -1 => ~(\E k \in OvrLevels : OvrBelowLimit(k))
       /\ ret # -1
          => /\ OvrWithinLimit(ret + 1)
             /\ \A k \in OvrLevels :
                   OvrBelowLimit(k)
                   => RatLeq(OverviewResolution(band.papoOverviews[k]),
                             OverviewResolution(band.papoOverviews[ret + 1]))

\* Two overviews, of resolutions 2 and 6, and a desired resolution of 3: the
\* scan has returned the first and passed over the second, which is beyond 3.6.
C12_Witness ==
    /\ pc = "ovrdone" /\ ret = 0
    /\ Len(band.papoOverviews) = 2
    /\ OvrDesired = <<6, 2>>
    /\ OverviewResolution(band.papoOverviews[1]) = <<6, 3>>
    /\ OverviewResolution(band.papoOverviews[2]) = <<6, 1>>
    /\ ~band.papoOverviews[2].bAverageBit2
    /\ req.nXSize = 3

CopyDims(ds) == <<ds.nRasterXSize, ds.nRasterYSize, ds.nBands>>
IsTileIO(e) == e[1] \in {"read", "write"}

\* C13: a whole-raster copy between a source and a destination that differ in
\* width, height or band count returns CE_Failure without having read a tile
\* of the source or written a tile of the destination.
C13_MismatchFailsBeforeIO ==
    (pc \in {"copyloop", "copydone"} /\ CopyDims(band.src) # CopyDims(band.dst))
    => /\ pc = "copydone" /\ ret = CE_Failure
       /\ \A k \in 1 .. Len(obs.events) : ~IsTileIO(obs.events[k])
       /\ \A q \in DOMAIN blocks : blocks[q] = OldWord(q)

\* GDALDatasetCopyWholeRaster has returned CE_Failure for datasets of the same
\* size that differ in their band count, and has called nothing.
C13_Witness ==
    /\ pc = "copydone" /\ ret = CE_Failure
    /\ req.eApi = DATASET_COPY
    /\ band.src.nRasterXSize = band.dst.nRasterXSize
    /\ band.src.nRasterYSize = band.dst.nRasterYSize
    /\ band.src.nBands # band.dst.nBands
    /\ obs.events = <<>>

\* The k-th call was a write of a tile that succeeded: a write is the last
\* call of a failed copy only when it is the call that failed.
IsGoodWrite(k) ==
    /\ obs.events[k][1] = "write"
    /\ ~(obs.failed /\ k = Len(obs.events))

\* C14: after the first tile read or write that fails or the first progress
\* callback that returns FALSE, a whole-raster copy reads no tile, writes no
\* tile and does not call the callback; it returns CE_Failure, and the tiles it
\* wrote before hold what was read for them.
C14_CopyStopsAtFirstFailure ==
    /\ obs.failed => Len(obs.events) = obs.nEventsAtFailure
    /\ (pc = "copydone" /\ obs.failed) => ret = CE_Failure
    /\ \A k \in 1 .. Len(obs.events) :
          IsGoodWrite(k)
          => \A q \in CopyPixels(obs.events[k][2][1], obs.events[k][2][2],
                                  obs.events[k][2][3], obs.events[k][2][4],
                                  obs.events[k][2][5]) :
                blocks[q] = SrcPixel(q)

\* A copy that failed after it had written a tile: it returned CE_Failure, the
\* tile is in the destination and another pixel of the destination is as before.
C14_Witness ==
    /\ pc = "copydone" /\ obs.failed /\ ret = CE_Failure
    /\ \E k \in 1 .. Len(obs.events) : IsGoodWrite(k)
    /\ \E q \in DOMAIN blocks : blocks[q] = OldWord(q)
    /\ \E q \in DOMAIN blocks : blocks[q] = SrcPixel(q)

\* C15: a successful copy in band-sequential mode and a successful copy in
\* pixel-interleaved mode of the same source over the same initial destination,
\* with the same hole-skipping option, leave the same destination contents.
C15_ModesGiveSameContents ==
    (pc = "copydone" /\ ret = CE_None /\ obs.run = 2) => blocks = obs.first

BlocksAsStored == [c \in Cells |-> SrcWord(c[1], c[2])]

\* C16: a read leaves the contents of the blocks as they were, and a second
\* read of the same window into a buffer of the same geometry, with no write
\* after the first, fills the buffer with the words the first read gave.
C16_RereadGivesSameBytes ==
    /\ (pc # "idle" /\ req.eRWFlag = GF_Read) => blocks = BlocksAsStored
    /\ (pc = "done" /\ ret = CE_None /\ "first" \in DOMAIN obs) => pData = obs.first

\* The second of two reads of a window that spans two blocks has returned
\* CE_None through the 1:1 window case, with every word of the buffer set.
C16_Witness ==
    /\ pc = "done" /\ ret = CE_None /\ "first" \in DOMAIN obs
    /\ obs.path = "window"
    /\ Len(obs.fetchLog) >= 2
    /\ \A d \in DOMAIN pData : pData[d] # UnsetWord
    /\ pData = obs.first

\* C17: every fraction IRasterIO passes to the progress callback, in any of
\* its four cases, is at least 0 and at most 1.
C17_ProgressFractionInUnitInterval ==
    \A k \in 1 .. Len(obs.progressLog) :
        /\ obs.progressLog[k][2] > 0
        /\ 0 <= obs.progressLog[k][1]
        /\ obs.progressLog[k][1] <= obs.progressLog[k][2]

\* A 1:1 request that started inside a block and whose last band of rows ends
\* before the block does: the callback got a fraction below 1 and then 1, the
\* latter for a row count that std::min lowered to nBufYSize.
C17_Witness ==
    /\ pc = "done" /\ ret = CE_None /\ obs.path = "window"
    /\ Len(obs.progressLog) >= 2
    /\ obs.progressLog[1][1] < obs.progressLog[1][2]
    /\ obs.progressLog[Len(obs.progressLog)] = <<req.nBufYSize, req.nBufYSize>>
    /\ loc.iBufYOff > req.nBufYSize

\* Word n of the destination and of the source of the call.
DstWordAt(n) ==
    BytesAt(pData, n * req.nDstPixelStride, GDALGetDataTypeSizeBytes(req.eDstType))
SrcWordAt(n) ==
    BytesAt(blocks, n * req.nSrcPixelStride, GDALGetDataTypeSizeBytes(req.eSrcType))
\* The memory at pDstData before the call.
DstBefore == [a \in DOMAIN pData |-> <<"old", a>>]

\* C18: a call with a source stride of 0 and a count above 1 leaves in each of
\* the count destination words, at the destination stride, the bytes that a
\* call for the one source word alone stores, and a call with a count of 1
\* stores those bytes.
C18_ReplicationEqualsSingleConversions ==
    /\ (pc = "copied" /\ req.nWordCount = 1) => DstWordAt(0) = CopyOneWord(0)
    /\ (pc = "copied" /\ req.nSrcPixelStride = 0 /\ req.nWordCount > 1)
       => \A n \in 0 .. req.nWordCount - 1 : DstWordAt(n) = CopyOneWord(0)

\* GDALReplicateWord has put a converted GInt16, saturated to the GByte 0, in
\* five destination words two bytes apart, and left the bytes between them.
C18_Witness ==
    /\ pc = "copied" /\ obs.path = "replicate"
    /\ req.eSrcType = GDT_Int16 /\ req.eDstType = GDT_Byte
    /\ req.nSrcPixelStride = 0 /\ req.nDstPixelStride = 2 /\ req.nWordCount = 5
    /\ \A n \in 0 .. 4 : pData[2 * n] = ByteOf(0)
    /\ \A n \in 0 .. 3 : pData[2 * n + 1] = <<"old", 2 * n + 1>>

\* C19: for every pair of types, pair of strides and count, the memory at
\* pDstData after the call is the memory that the per-word loop of the generic
\* fallback leaves there, whichever copy GDALCopyWords selected.
C19_FastPathsEqualGenericLoop ==
    pc = "copied"
    => pData = StoreAll(DstBefore, [n \in 0 .. req.nWordCount - 1 |-> GenericLoop(n)])

\* The SSE2 kernel for GUInt16 to GByte has converted 17 packed words, 16 of
\* them in its vector loop and the last one after it, some saturated to 255.
C19_Witness ==
    /\ pc = "copied" /\ obs.path = "convert" /\ band.build = X86_64
    /\ req.eSrcType = GDT_UInt16 /\ req.eDstType = GDT_Byte
    /\ req.nSrcPixelStride = 2 /\ req.nDstPixelStride = 1 /\ req.nWordCount = 17
    /\ pData[0] = ByteOf(250)
    /\ \A n \in 1 .. 16 : pData[n] = ByteOf(255)

\* C20: when the two types are the same, word k of the destination holds the
\* bytes of word k of the source after the call, for every k below the count.
C20_SameTypeCopiesWordsUnchanged ==
    (pc = "copied" /\ req.eSrcType = req.eDstType)
    => \A k \in 0 .. req.nWordCount - 1 : DstWordAt(k) = SrcWordAt(k)

\* GDALFastCopy has taken 17 bytes that lie 2 bytes apart to a packed buffer,
\* and 17 GInt16 words from a packed buffer to words 3 words apart.
C20_Witness ==
    /\ pc = "copied" /\ obs.path = "fastcopy" /\ req.nWordCount = 17
    /\ \/ /\ req.eSrcType = GDT_Byte /\ req.eDstType = GDT_Byte
          /\ req.nSrcPixelStride = 2 /\ req.nDstPixelStride = 1
          /\ band.build = X86_64
          /\ \A k \in 0 .. 16 : pData[k] = ByteOf(SrcScalar(GDT_Byte, k))
       \/ /\ req.eSrcType = GDT_Int16 /\ req.eDstType = GDT_Int16
          /\ req.nSrcPixelStride = 2 /\ req.nDstPixelStride = 6
          /\ \A k \in 0 .. 16 : pData[6 * k] = blocks[2 * k]

\* C21: a call that converts an integer type to a narrower integer type leaves
\* in each destination word the maximum of the destination type for a source
\* value above it, the minimum for a source value below it, and the source
\* value otherwise.
C21_NarrowingSaturates ==
    (/\ pc = "copied"
     /\ req.eSrcType \in {GDT_UInt16, GDT_Int16, GDT_UInt32, GDT_Int32}
     /\ req.eDstType \in {GDT_Byte, GDT_UInt16, GDT_Int16}
     /\ SizeOf(req.eDstType) < SizeOf(req.eSrcType))
    => LET lo == IF req.eDstType = GDT_Int16 THEN -32768 ELSE 0
           hi == CASE req.eDstType = GDT_Byte -> 255
                   [] req.eDstType = GDT_UInt16 -> 65535
                   [] req.eDstType = GDT_Int16 -> 32767
       IN \A n \in 0 .. req.nWordCount - 1 :
             LET v == LoadWord(blocks, n * req.nSrcPixelStride, req.eSrcType)
                 w == LoadWord(pData, n * req.nDstPixelStride, req.eDstType)
             IN /\ v > hi => w = hi
                /\ v < lo => w = lo
                /\ (lo <= v /\ v <= hi) => w = v

\* A call from GInt16 to GByte whose second and third source words are 300 and
\* -300 has stored 255 and 0.
C21_Witness ==
    /\ pc = "copied" /\ obs.path = "convert"
    /\ req.eSrcType = GDT_Int16 /\ req.eDstType = GDT_Byte /\ req.nWordCount = 5
    /\ LoadWord(blocks, req.nSrcPixelStride, GDT_Int16) = 300
    /\ LoadWord(blocks, 2 * req.nSrcPixelStride, GDT_Int16) = -300
    /\ pData[req.nDstPixelStride] = ByteOf(255)
    /\ pData[2 * req.nDstPixelStride] = ByteOf(0)

\* C22: a call from a complex to a non-complex type leaves in destination
\* word n the converted real component of source word n, whatever its
\* imaginary component; a call from a non-complex to a complex type leaves the
\* converted value followed by a zero imaginary component.
C22_ComplexAndRealUseRealComponent ==
    LET ci == ComponentType(req.eSrcType)
        co == ComponentType(req.eDstType)
    IN /\ (/\ pc = "copied"
           /\ GDALDataTypeIsComplex(req.eSrcType) /\ ~GDALDataTypeIsComplex(req.eDstType))
          => \A n \in 0 .. req.nWordCount - 1 :
                DstWordAt(n)
                = EncodeWord(co, GDALCopyWord(LoadWord(blocks, n * req.nSrcPixelStride, ci),
                                              ci, co))
       /\ (/\ pc = "copied"
           /\ ~GDALDataTypeIsComplex(req.eSrcType) /\ GDALDataTypeIsComplex(req.eDstType))
          => \A n \in 0 .. req.nWordCount - 1 :
                DstWordAt(n)
                = EncodeWord(co, GDALCopyWord(LoadWord(blocks, n * req.nSrcPixelStride, ci),
                                              ci, co))
                  \o EncodeWord(co, 0)

\* A call from GDT_CInt16 to GDT_Int32 whose fourth source word is (3, 7) has
\* stored 3 in the fourth destination word.
C22_Witness ==
    /\ pc = "copied" /\ obs.path = "convert"
    /\ req.eSrcType = GDT_CInt16 /\ req.eDstType = GDT_Int32 /\ req.nWordCount = 5
    /\ LoadWord(blocks, 3 * req.nSrcPixelStride, GDT_Int16) = 3
    /\ LoadWord(blocks, 3 * req.nSrcPixelStride + 2, GDT_Int16) = 7
    /\ LoadWord(pData, 3 * req.nDstPixelStride, GDT_Int32) = 3

\* C23: after GDALCopyBits, for every step s below nStepCount and every bit b
\* below nBitCount, bit nDstOffset + s * nDstStep + b of the destination, counted
\* from the most significant bit of each byte, equals bit
\* nSrcOffset + s * nSrcStep + b of the source, and every other bit of the
\* destination is as it was before the call.
C23_CopyBitsMovesEachBit ==
    pc = "bitscopied"
    => \A p \in 0 .. 8 * Cardinality(DOMAIN pData) - 1 :
          LET S == {sb \in (0 .. req.nStepCount - 1) \X (0 .. req.nBitCount - 1) :
                       req.nDstOffset + sb[1] * req.nDstStep + sb[2] = p}
          IN /\ \A sb \in S :
                   BitAt(pData, p) = BitAt(blocks, req.nSrcOffset + sb[1] * req.nSrcStep + sb[2])
             /\ S = {} => BitAt(pData, p) = BitAt(obs.before, p)

\* Three words of three bits, taken from bit 5 of the source at every fourth
\* bit, have gone to bit 6 of the destination and every fifth bit after it:
\* bytes of both buffers are crossed, bits were set and bits were cleared.
C23_Witness ==
    /\ pc = "bitscopied"
    /\ req.nBitCount = 3 /\ req.nStepCount = 3
    /\ req.nSrcOffset = 5 /\ req.nSrcStep = 4
    /\ req.nDstOffset = 6 /\ req.nDstStep = 5
    /\ \E p, q \in 0 .. 8 * Cardinality(DOMAIN pData) - 1 :
          /\ BitAt(pData, p) = 1 /\ BitAt(obs.before, p) = 0
          /\ BitAt(pData, q) = 0 /\ BitAt(obs.before, q) = 1

\* The calls of GDALSwapWords made cover the words 0 .. nWordCount - 1 of the
\* buffer of GDALSwapWordsEx one after the other, without a gap and without a
\* word in two calls, each call within the limit of 2^30 words, and the words
\* they cover are reversed as one call for all the words reverses them.
SwappedExactlyOnce ==
    /\ \A k \in 1 .. Len(pData) :
          /\ pData[k][1] = (IF k = 1 THEN <<0, 0>>
                            ELSE BigAdd(pData[k - 1][1],
                                        BigTimes(req.nWordSkip, pData[k - 1][2])))
          /\ BigGreater(pData[k][2], <<0, 0>>) /\ ~BigGreater(pData[k][2], OneChunk)
          /\ pData[k][3] = req.nWordSkip
          /\ pData[k][4] = GDALSwapWords(<<0, 0>>, req.nWordSize, req.nWordCount,
                                         req.nWordSkip)[4]
    /\ LET RECURSIVE Total(_)
           Total(k) == IF k = 0 THEN <<0, 0>> ELSE BigAdd(Total(k - 1), pData[k][2])
       IN Total(Len(pData)) = req.nWordCount

\* C24: GDALSwapWordsEx ends for every word count, and when it has ended each
\* of the nWordCount words has had its bytes reversed by exactly one call of
\* GDALSwapWords, as one pass over all the words would have done.
C24_SwapWordsExSwapsEachWordOnce == <>[](pc = "swapped" /\ SwappedExactlyOnce)

\* A call for 2 * 2^30 + 1 words of 4 bytes that lie 8 bytes apart has ended
\* after three calls of GDALSwapWords, the last one for a single word.
C24_Witness ==
    /\ pc = "swapped"
    /\ req.nWordCount = <<2, 1>> /\ req.nWordSize = 4 /\ req.nWordSkip = 8
    /\ Len(pData) = 3
    /\ pData[3] = <<<<16, 0>>, <<0, 1>>, 8, 1>>

\* C25: with hole skipping enabled, every tile that a copy of either function,
\* in either mode, reads from the source or writes to the destination has data
\* in at least one of the bands being copied.
C25_HoleTilesNeitherReadNorWritten ==
    req.bCheckHoles
    => \A k \in 1 .. Len(obs.events) :
          obs.events[k][1] \in {"read", "write"}
          => \E b \in obs.events[k][2][1] :
                HasData(b, obs.events[k][2][2], obs.events[k][2][3],
                        obs.events[k][2][4], obs.events[k][2][5])

\* The cases of IRasterIO that work on the blocks of the band itself.
FullResolutionCases == {"packed", "window", "write", "read"}

\* The window of the request is the one the caller gave.
OriginalWindow ==
    /\ req.nXOff = obs.nXOff /\ req.nYOff = obs.nYOff
    /\ req.nXSize = obs.nXSize /\ req.nYSize = obs.nYSize

\* The call is reissued on an overview only for a read into a buffer smaller
\* than the window on a band with overviews of which one was selected.
RedirectedOnlyWhenQualified ==
    pc = "overview" =>
        /\ req.eRWFlag = GF_Read
        /\ req.nBufXSize < obs.nXSize \/ req.nBufYSize < obs.nYSize
        /\ Len(band.papoOverviews) > 0
        /\ ret >= 0
        /\ band.papoOverviews[ret + 1] # NullOverview
        /\ ~band.papoOverviews[ret + 1].bAverageBit2

SameSizeAndAligned ==
    /\ req.nBufXSize = obs.nXSize
    /\ req.nBufYSize = obs.nYSize
    /\ \/ ~req.bFloatingPointWindowValidity
       \/ /\ req.dfXOff2 = 2 * obs.nXOff /\ req.dfYOff2 = 2 * obs.nYOff
          /\ req.dfXSize2 = 2 * obs.nXSize /\ req.dfYSize2 = 2 * obs.nYSize

\* IRasterIO has chosen the case that serves the request.
CaseChosen == pc \in {"packed", "window", "write", "read", "overview", "zeroed", "failed"}

FetchCount(b) == Cardinality({k \in 1 .. Len(obs.fetchLog) : FetchedBlock(k) = b})

\* C28: in a successful packed or 1:1 window call, every block that
\* intersects the window is fetched exactly once and no other block is
\* fetched.
C28_IntersectingBlocksFetchedOnce ==
    (Succeeded /\ IsDirectPath)
    => \A b \in BlockIds :
          FetchCount(b) = IF \E c \in CellsOfBlock(b) : InWindow(c) THEN 1 ELSE 0

\* A finished 1:1 call over two rows of two of the four blocks of the band.
C28_Witness ==
    /\ Succeeded
    /\ obs.path = "window"
    /\ req.nYSize = 2
    /\ Len(obs.fetchLog) = 2
    /\ Cardinality(BlockIds) = 4

\* C29: the loop that sizes the chunks of the resampling path terminates for
\* every buffer of at least 1x1 and every window, the chunk of the buffer
\* never has a dimension below 1, and the loop ends with a chunk of the source
\* of at most 1024 * 1024 pixels unless the chunk of the buffer is 1x1.
C29_ChunkLoopEndsWithinBudget ==
    /\ [](loc.nDstBlockXSize >= 1 /\ loc.nDstBlockYSize >= 1)
    /\ <>[](/\ pc = "chunked"
            /\ \/ ProductAtMost(loc.nFullResXChunk, loc.nFullResYChunk, 1048576)
               \/ loc.nDstBlockXSize = 1 /\ loc.nDstBlockYSize = 1)

\* The loop has ended after more than one halving, with a chunk of the buffer
\* of more than one pixel.
C29_Witness ==
    /\ pc = "chunked"
    /\ obs > 2
    /\ loc.nDstBlockXSize * loc.nDstBlockYSize > 1

\* The bytes of a swath: of all the bands of a pixel in interleaved mode.
SwathBytes == ret.nSwathCols * ret.nSwathLines * SwathPixelSize(req)

\* C30: the swath computed for a whole-raster copy fits the memory budget:
\* swath columns * swath lines * bytes per pixel (times the band count in
\* interleaved mode) does not exceed the target swath size in force.
C30_SwathFitsTargetSize ==
    pc = "swathdone" => SwathBytes <= ret.nTargetSwathSize

\* The blocks of the destination, by column and by row of blocks.
DstBlockColumns == 0 .. ((req.nXSize + req.nBlockXSize - 1) \div req.nBlockXSize) - 1
DstBlockRows == 0 .. ((req.nYSize + req.nBlockYSize - 1) \div req.nBlockYSize) - 1

\* The pixels first .. last of a raster of nSize pixels, cut into tiles of
\* nTile pixels, lie in one tile.
InOneTile(first, last, nSize, nTile) ==
    first \div nTile = Min(last, nSize - 1) \div nTile

\* C31: when the destination is flagged as compressed, the swath height is a
\* positive multiple of the destination block height and the swath width is
\* the raster width or a positive multiple of the destination block width, so
\* that every destination block lies inside one swath tile.
C31_CompressedSwathOfWholeBlocks ==
    (pc = "swathdone" /\ req.bDstIsCompressed) =>
        /\ ret.nSwathLines > 0
        /\ ret.nSwathLines % req.nBlockYSize = 0
        /\ \/ ret.nSwathCols = req.nXSize
           \/ ret.nSwathCols > 0 /\ ret.nSwathCols % req.nBlockXSize = 0
        /\ \A bx \in DstBlockColumns :
              InOneTile(bx * req.nBlockXSize, (bx + 1) * req.nBlockXSize - 1,
                        req.nXSize, ret.nSwathCols)
        /\ \A by \in DstBlockRows :
              InOneTile(by * req.nBlockYSize, (by + 1) * req.nBlockYSize - 1,
                        req.nYSize, ret.nSwathLines)

\* A swath for a compressed destination that is narrower than the raster and
\* several rows of blocks high.
C31_Witness ==
    /\ pc = "swathdone"
    /\ req.bDstIsCompressed
    /\ ret.nSwathCols < req.nXSize
    /\ ret.nSwathLines > req.nBlockYSize
    /\ ret.nSwathLines < req.nYSize

\* C32: a successful 1:1 write of a window followed, with no other write in
\* between, by a 1:1 read of the same window returns the words that were
\* written, wherever the window lies on the grid of the blocks.
C32_ReadBackGivesWrittenWords ==
    (Succeeded /\ "written" \in DOMAIN obs) =>
        /\ pData = obs.written
        /\ \A d \in BufCells : pData[d] = UsrWord(d[1], d[2])

\* A window read back that starts inside a block, covers blocks in part and
\* ends in a block that reaches beyond the raster.
C32_Witness ==
    /\ Succeeded /\ "written" \in DOMAIN obs
    /\ req.nXOff % band.nBlockXSize # 0
    /\ Len(obs.fetchLog) >= 2
    /\ \E k \in 1 .. Len(obs.fetchLog) : IsPartialBlock(FetchedBlock(k))

\* The call goes on after a fetch of a block that gave no block.
AfterFailedFetch ==
    /\ Running
    /\ obs.nFaults > 0
    /\ loc.eErr = CE_Failure
    /\ loc.poBlock = NoBlock

\* C33: once a fetch of a block has failed during a call of IRasterIO, the
\* call asks the cache for no further block and writes nothing more into the
\* buffer of the caller before it returns the failure, in every case.
C33_FailedFetchEndsTheCall ==
    [][AfterFailedFetch =>
          /\ obs'.fetchLog = obs.fetchLog
          /\ pData' = pData
          /\ pc' = "done" /\ ret' = CE_Failure]_vars

\* C34: IRasterIO never drops the lock of a block more often than it took it,
\* and when it has returned every lock a fetch took has been dropped once:
\* the count of the locks the call holds on a block is never negative and is
\* zero at the return.
C34_EachFetchDroppedOnce ==
    /\ \A b \in BlockIds : obs.locks[b] >= 0
    /\ pc = "done" => \A b \in BlockIds : obs.locks[b] = 0

\* C35: within one call of IRasterIO the fractions passed to the progress
\* callback, each held as <<numerator, denominator>>, never decrease.
C35_ProgressNeverDecreases ==
    \A k \in 1 .. Len(obs.progressLog) - 1 :
        obs.progressLog[k][1] * obs.progressLog[k + 1][2]
            <= obs.progressLog[k + 1][1] * obs.progressLog[k][2]

\* C36: in the 1:1 case of BlockBasedRasterIO the fraction given to the
\* progress callback after a chunk of rows is the number of buffer rows done
\* so far over the number of buffer rows: below 1 until the last chunk.
C36_BlockBasedProgressIsRowsDone ==
    \A k \in 1 .. Len(obs.progressLog) :
        obs.progressLog[k][1] * req.nBufYSize
            = obs.progressLog[k][3] * obs.progressLog[k][2]

\* The tiles of the calls of kind ("read" or "write") that hold pixel q.
TilesWith(kind, q) ==
    {k \in 1 .. Len(obs.events) :
        /\ obs.events[k][1] = kind
        /\ q \in CopyPixels(obs.events[k][2][1], obs.events[k][2][2], obs.events[k][2][3],
                            obs.events[k][2][4], obs.events[k][2][5])}

\* C37: in a successful whole-raster copy without the test of the holes the
\* loops over the tiles end and the tiles partition the raster: every pixel of
\* every band copied is read from the source once and written to the
\* destination once, whether the swath divides the raster or not.
C37_TilesPartitionTheRaster ==
    /\ <>(pc = "copydone")
    /\ []((pc = "copydone" /\ ret = CE_None) =>
            \A q \in DOMAIN blocks :
               /\ Cardinality(TilesWith("read", q)) = 1
               /\ Cardinality(TilesWith("write", q)) = 1
               /\ blocks[q] = SrcPixel(q))

\* A copy of a raster of three columns and three lines done in swaths of two
\* columns and two lines: four tiles for each band.
C37_Witness ==
    /\ pc = "copydone" /\ ret = CE_None
    /\ band.dst.nRasterXSize = 3 /\ band.dst.nRasterYSize = 3
    /\ req.nSwathCols = 2 /\ req.nSwathLines = 2
    /\ ~req.bInterleave /\ band.dst.nBands = 2
    /\ Cardinality({k \in 1 .. Len(obs.events) : obs.events[k][1] = "write"}) = 8

\* A window of the source has been queried.
Queried == pc \in {"chunkquery", "chunkdone"} /\ obs # <<>>

\* C38: in the resampling path the window of the source queried for a chunk
\* of the buffer never exceeds the chunk allocated before the loops: nXCount
\* <= nFullResXChunk, nYCount <= nFullResYChunk, nChunkXSizeQueried <=
\* nFullResXSizeQueried, nChunkYSizeQueried <= nFullResYSizeQueried, and the
\* window queried lies inside the raster.
C38_QueriedChunkFitsTheBuffer ==
    Queried =>
        /\ obs.nXCount <= loc.nFullResXChunk
        /\ obs.nYCount <= loc.nFullResYChunk
        /\ obs.nChunkXSizeQueried <= loc.nFullResXSizeQueried
        /\ obs.nChunkYSizeQueried <= loc.nFullResYSizeQueried
        /\ obs.nChunkXOffQueried >= 0 /\ obs.nChunkXSizeQueried >= 1
        /\ obs.nChunkXOffQueried <= band.nRasterXSize - obs.nChunkXSizeQueried
        /\ obs.nChunkYOffQueried >= 0 /\ obs.nChunkYSizeQueried >= 1
        /\ obs.nChunkYOffQueried <= band.nRasterYSize - obs.nChunkYSizeQueried

\* Byte a at pDstData lies in one of the nWordCount destination words.
InDstWord(a) ==
    \E k \in 0 .. req.nWordCount - 1 :
       /\ k * req.nDstPixelStride <= a
       /\ a < k * req.nDstPixelStride + GDALGetDataTypeSizeBytes(req.eDstType)

\* C39: GDALCopyWords writes only the destination words at pDstData + k *
\* nDstPixelStride for k below the count: the bytes between two destination
\* words hold after the call what they held before it, whichever copy was
\* selected.
C39_BytesBetweenWordsKept ==
    pc = "copied"
    => \A a \in DOMAIN pData : ~InDstWord(a) => pData[a] = DstBefore[a]

\* The generic conversion has put five GInt16 words in GInt32 words eight
\* bytes apart and left the four bytes after each of them.
C39_Witness ==
    /\ pc = "copied" /\ obs.path = "convert"
    /\ req.eSrcType = GDT_Int16 /\ req.eDstType = GDT_Int32
    /\ req.nSrcPixelStride = 2 /\ req.nDstPixelStride = 8 /\ req.nWordCount = 5
    /\ DstWordAt(1) = EncodeWord(GDT_Int32, 300)
    /\ \A n \in 0 .. 3 : \A i \in 4 .. 7 : pData[8 * n + i] = <<"old", 8 * n + i>>

\* The ids held in the sets of the priorities.
PriorityIds == UNION {band.label_priorities_[q] : q \in Priorities}

\* C40: after any sequence of calls of addLabel, removeLabel, the setters of
\* a label, setPriority and stop, from one thread or several, the ids of the
\* labels in labels_ are the ids held in the sets of label_priorities_, and
\* each of them is in the set of one priority only; a setter called with an
\* id that was removed or never issued therefore adds no label.
C40_LabelsMatchPriorities ==
    pc = "labels" =>
       /\ DOMAIN band.labels_ = PriorityIds
       /\ \A id \in PriorityIds :
             Cardinality({q \in Priorities : id \in band.label_priorities_[q]}) = 1

====
